---------------------------- MODULE Spec2Model ----------------------------
(***************************************************************************)
(* Model of the specql Rust extractor (src/rust/src/main.rs): the field    *)
(* type classifier, the struct extractor, the attribute scan, the          *)
(* hand-rolled parser of Diesel table! token text, and the main loop that  *)
(* collects the three record collections into one output document.         *)
(*                                                                         *)
(* Text is a sequence of one-character strings, so that find, trim, split  *)
(* and slicing are computed as the Rust code computes them.  Offsets are   *)
(* the 0-based offsets of the Rust code; NONE stands for Option::None of a *)
(* find.  All modelled text is ASCII, so byte and character offsets agree. *)
(***************************************************************************)
EXTENDS Integers, Sequences, FiniteSets, TLC

VARIABLES
    \* main(): the declarations of the parsed file and the loop over them
    items, idx, pc, structs, diesel_tables, diesel_derives, output, exit_code,
    \* parse_diesel_table_tokens applied to one token text
    tokens, tokens_src, table_result,
    \* parse_column_def applied to one column definition
    def, def_src, column_result,
    \* extract_type_info applied to one type, call by call
    ty, call_stack, ret, calls, type_result,
    \* extract_struct_info / extract_diesel_derives applied to one struct
    struct_item, struct_result, derive_result

mainVars   == <<items, idx, pc, structs, diesel_tables, diesel_derives, output, exit_code>>
tableVars  == <<tokens, tokens_src, table_result>>
columnVars == <<def, def_src, column_result>>
typeVars   == <<ty, call_stack, ret, calls, type_result>>
structVars == <<struct_item, struct_result, derive_result>>
vars == <<mainVars, tableVars, columnVars, typeVars, structVars>>

-----------------------------------------------------------------------------
(* Rust values *)

NONE == -1
None == [tag |-> "None"]
Some(v) == [tag |-> "Some", val |-> v]
Ok(v) == [tag |-> "Ok", val |-> v]
Err(e) == [tag |-> "Err", err |-> e]
\* a panic unwinding out of the call (slice index out of order)
Panic == [tag |-> "Panic"]
\* a variable of a specification that does not use it, or a call not yet made
Idle == [tag |-> "Idle"]

-----------------------------------------------------------------------------
(* str operations of the standard library, on sequences of characters *)

\* char::is_whitespace, restricted to the ASCII characters the model uses
WhiteSpace == {" ", "\t", "\n"}

is_whitespace(c) == c \in WhiteSpace

\* s[a..b]
slice(s, a, b) == SubSeq(s, a + 1, b)

\* s[a..]
slice_from(s, a) == SubSeq(s, a + 1, Len(s))

\* s[a..b] panics when the range is out of order or past the end
slice_panics(s, a, b) == a > b \/ b > Len(s)

\* the least element of a non-empty set of offsets
Least(S) == CHOOSE i \in S : \A j \in S : i <= j

Greatest(S) == CHOOSE i \in S : \A j \in S : j <= i

\* str::find with a predicate given as a set of characters
find_in(s, cs) ==
    LET hits == {i \in 1..Len(s) : s[i] \in cs}
    IN  IF hits = {} THEN NONE ELSE Least(hits) - 1

\* str::find(char)
find_char(s, c) == find_in(s, {c})

\* str::rfind(char)
rfind_char(s, c) ==
    LET hits == {i \in 1..Len(s) : s[i] = c}
    IN  IF hits = {} THEN NONE ELSE Greatest(hits) - 1

\* str::find(&str)
find_str(s, pat) ==
    LET hits == {i \in 1..(Len(s) - Len(pat) + 1) : SubSeq(s, i, i + Len(pat) - 1) = pat}
    IN  IF hits = {} THEN NONE ELSE Least(hits) - 1

\* str::contains(&str)
contains(s, pat) == find_str(s, pat) # NONE

\* str::trim
trim(s) ==
    LET keep == {i \in 1..Len(s) : ~is_whitespace(s[i])}
    IN  IF keep = {} THEN <<>> ELSE SubSeq(s, Least(keep), Greatest(keep))

\* str::split(&str): the pieces between non-overlapping matches, left to right
split_str(s, pat) ==
    LET matches == {i \in 0..(Len(s) - Len(pat)) : slice(s, i, i + Len(pat)) = pat}
        pieces[from \in 0..Len(s)] ==
            LET later == {i \in matches : i >= from}
            IN  IF later = {} THEN <<slice_from(s, from)>>
                ELSE <<slice(s, from, Least(later))>> \o pieces[Least(later) + Len(pat)]
    IN  pieces[0]

\* str::split(char)
split_char(s, c) == split_str(s, <<c>>)

\* Iterator::map over a Vec
Map(Op(_), xs) == [i \in 1..Len(xs) |-> Op(xs[i])]

\* [T]::join(&str)
RECURSIVE join(_, _)
join(xs, sep) ==
    IF Len(xs) = 0 THEN <<>>
    ELSE IF Len(xs) = 1 THEN xs[1]
    ELSE xs[1] \o sep \o join(Tail(xs), sep)

\* concatenation of a sequence of texts
Concat(xs) == join(xs, <<>>)

-----------------------------------------------------------------------------
(* Literals of the source *)

W_Nullable == <<"N", "u", "l", "l", "a", "b", "l", "e">>
W_Arrow == <<"-", ">">>
W_PathSep == <<":", ":">>

-----------------------------------------------------------------------------
(* parse_column_def: "column_name -> Type" or "column_name -> Nullable<Type>" *)

\* nullable_unwrap setting the flag on the substring test alone, leaving the
\* text wrapped
nullable_unwrap_keeps_wrapper(type_part) ==
    IF contains(type_part, W_Nullable)
    THEN Ok(<<type_part, TRUE>>)
    ELSE Ok(<<type_part, FALSE>>)

\* nullable_unwrap setting the flag when "Nullable" occurs without a '<'
nullable_unwrap_flags_substring(type_part) ==
    IF contains(type_part, W_Nullable)
    THEN LET start == find_char(type_part, "<")
         IN  IF start # NONE
             THEN LET end == rfind_char(type_part, ">")
                  IN  IF end # NONE
                      THEN IF slice_panics(type_part, start + 1, end)
                           THEN Panic
                           ELSE Ok(<<trim(slice(type_part, start + 1, end)), TRUE>>)
                      ELSE Ok(<<type_part, FALSE>>)
             ELSE Ok(<<type_part, TRUE>>)
    ELSE Ok(<<type_part, FALSE>>)

\* nullable_unwrap closing at the first '>' instead of the last
nullable_unwrap_first_close(type_part) ==
    IF contains(type_part, W_Nullable)
    THEN LET start == find_char(type_part, "<")
         IN  IF start # NONE
             THEN LET end == find_char(type_part, ">")
                  IN  IF end # NONE
                      THEN IF slice_panics(type_part, start + 1, end)
                           THEN Panic
                           ELSE Ok(<<trim(slice(type_part, start + 1, end)), TRUE>>)
                      ELSE Ok(<<type_part, FALSE>>)
             ELSE Ok(<<type_part, FALSE>>)
    ELSE Ok(<<type_part, FALSE>>)

\* lines 265-279: (sql_type, is_nullable) of a trimmed type text; the slice
\* type_part[start + 1..end] panics when the last '>' is left of the first '<'
nullable_unwrap(type_part) ==
    IF contains(type_part, W_Nullable)
    THEN LET start == find_char(type_part, "<")
         IN  IF start # NONE
             THEN LET end == rfind_char(type_part, ">")
                  IN  IF end # NONE
                      THEN IF slice_panics(type_part, start + 1, end)
                           THEN Panic
                           ELSE Ok(<<trim(slice(type_part, start + 1, end)), TRUE>>)
                      ELSE Ok(<<type_part, FALSE>>)
             ELSE Ok(<<type_part, FALSE>>)
    ELSE Ok(<<type_part, FALSE>>)

parse_column_def(d) ==
    LET parts == Map(trim, split_str(d, W_Arrow))
    IN  IF Len(parts) = 2
        THEN LET col_name == parts[1]
                 type_part == parts[2]
                 unwrapped == nullable_unwrap(type_part)
             IN  IF unwrapped = Panic
                 THEN Panic
                 ELSE Some(<<col_name, unwrapped.val[1], unwrapped.val[2]>>)
        ELSE None

-----------------------------------------------------------------------------
(* parse_diesel_table_tokens: table_name (primary_key) { column -> Type, ... } *)

DieselColumn(t) == [name |-> t[1], sql_type |-> t[2], is_nullable |-> t[3]]

DieselTable(n, pk, cols) == [name |-> n, primary_key |-> pk, columns |-> cols]

\* primary_key_of keeping the empty pieces
primary_key_of_keeps_empty(pk_content) ==
    Map(trim, split_char(pk_content, ","))

\* lines 222-226: split on ',', trim, drop the empty pieces
primary_key_of(pk_content) ==
    LET NonEmpty(s) == s # <<>>
    IN  SelectSeq(Map(trim, split_char(pk_content, ",")), NonEmpty)

\* lines 235-239: the trimmed column definitions the loop does not skip
column_defs_of(columns_content) ==
    LET Kept(s) == ~(s = <<>> \/ s = <<"}">>)
    IN  SelectSeq(Map(trim, split_char(columns_content, ",")), Kept)

\* lines 234-248: the loop over the column definitions; a panic in
\* parse_column_def unwinds through it
columns_of(columns_content) ==
    LET parsed == Map(parse_column_def, column_defs_of(columns_content))
        IsSome(r) == r.tag = "Some"
        Column(r) == DieselColumn(r.val)
    IN  IF \E i \in 1..Len(parsed) : parsed[i] = Panic
        THEN Panic
        ELSE Ok(Map(Column, SelectSeq(parsed, IsSome)))

\* columns_content_of searching the braces from the start of the text instead
\* of from pk_end
columns_content_of_from_start(content, pk_end) ==
    LET brace_start == find_char(content, "{")
    IN  IF brace_start = NONE THEN None
        ELSE LET brace_end == find_char(slice_from(content, brace_start), "}")
             IN  IF brace_end = NONE THEN None
                 ELSE Some(slice(content, brace_start + 1, brace_start + brace_end))

\* columns_content_of closing the body at the last '}' of the text, as a
\* parser matching the outermost pair of braces would
columns_content_of_last_close(content, pk_end) ==
    LET brace_start == find_char(slice_from(content, pk_end), "{")
    IN  IF brace_start = NONE THEN None
        ELSE LET brace_end == rfind_char(slice_from(content, pk_end + brace_start), "}")
             IN  IF brace_end = NONE THEN None
                 ELSE Some(slice(content, pk_end + brace_start + 1,
                                 pk_end + brace_start + brace_end))

\* lines 228-231: the text between the first '{' at or after pk_end and the
\* first '}' at or after that '{'
columns_content_of(content, pk_end) ==
    LET brace_start == find_char(slice_from(content, pk_end), "{")
    IN  IF brace_start = NONE THEN None
        ELSE LET brace_end == find_char(slice_from(content, pk_end + brace_start), "}")
             IN  IF brace_end = NONE THEN None
                 ELSE IF slice_panics(content, pk_end + brace_start + 1,
                                      pk_end + brace_start + brace_end)
                      THEN Panic
                      ELSE Some(slice(content, pk_end + brace_start + 1,
                                      pk_end + brace_start + brace_end))

\* parse_diesel_table_tokens ending the name at the '(' when no whitespace
\* comes before it
parse_diesel_table_tokens_name_to_paren(text) ==
    LET content == trim(text)
        table_name_end == find_in(content, WhiteSpace \cup {"("})
    IN  IF table_name_end = NONE THEN None
        ELSE LET table_name == slice(content, 0, table_name_end)
                 pk_start == find_char(content, "(")
                 pk_end == find_char(content, ")")
             IN  IF pk_start = NONE \/ pk_end = NONE THEN None
                 ELSE IF pk_end <= pk_start THEN None
                 ELSE LET primary_key == primary_key_of(slice(content, pk_start + 1, pk_end))
                          body == columns_content_of(content, pk_end)
                      IN  IF body.tag # "Some" THEN body
                          ELSE LET columns == columns_of(body.val)
                               IN  IF columns = Panic THEN Panic
                                   ELSE Some(DieselTable(table_name, primary_key, columns.val))

parse_diesel_table_tokens(text) ==
    LET content == trim(text)
        table_name_end == find_in(content, WhiteSpace)
    IN  IF table_name_end = NONE THEN None
        ELSE LET table_name == slice(content, 0, table_name_end)
                 pk_start == find_char(content, "(")
                 pk_end == find_char(content, ")")
             IN  IF pk_start = NONE \/ pk_end = NONE THEN None
                 ELSE IF pk_end <= pk_start THEN None
                 ELSE LET primary_key == primary_key_of(slice(content, pk_start + 1, pk_end))
                          body == columns_content_of(content, pk_end)
                      IN  IF body.tag # "Some" THEN body
                          ELSE LET columns == columns_of(body.val)
                               IN  IF columns = Panic THEN Panic
                                   ELSE Some(DieselTable(table_name, primary_key, columns.val))

-----------------------------------------------------------------------------
(* Input texts *)

W_Text == <<"T", "e", "x", "t">>
W_Int8 == <<"I", "n", "t", "8">>
W_id == <<"i", "d">>
W_name == <<"n", "a", "m", "e">>
W_notes == <<"n", "o", "t", "e", "s">>
W_extra == <<"e", "x", "t", "r", "a">>
W_widgets == <<"w", "i", "d", "g", "e", "t", "s">>
W_NullableThing == W_Nullable \o <<"T", "h", "i", "n", "g">>
W_NullableText == W_Nullable \o <<"<">> \o W_Text \o <<">">>
W_ArrayText == <<"A", "r", "r", "a", "y", "<">> \o W_Text \o <<">">>
W_ArrayNullableText == <<"A", "r", "r", "a", "y", "<">> \o W_NullableText \o <<">">>

\* number of pieces a generated column type text is made of
MaxTypePieces == 4
\* number of pieces of a column type in a generated table text
MaxFormPieces == 3
\* number of columns of a generated table text
MaxCols == 3
\* number of characters of a generated unstructured token text
MaxRawLen == 6

\* the sequences of at most n elements of S
SeqsUpTo(S, n) == UNION {[1..k -> S] : k \in 0..n}

\* the texts made of at most n pieces of P
RECURSIVE TextsOver(_, _)
TextsOver(P, n) ==
    IF n = 0 THEN {<<>>}
    ELSE LET prev == TextsOver(P, n - 1)
         IN  prev \cup {p \o t : p \in P, t \in prev}

TypePieces == {W_Nullable, <<"<">>, <<">">>, W_Text, <<" ">>}

TypeTexts ==
    TextsOver(TypePieces, MaxTypePieces)
    \cup {W_NullableThing, W_ArrayText, W_ArrayNullableText}

\* a column definition: a name followed by zero, one or two "-> type" parts
ColumnSources ==
    [name : {W_id, W_notes}, sep : {<<" ">> \o W_Arrow \o <<" ">>, W_Arrow},
     types : {<<>>} \cup {<<t>> : t \in TypeTexts} \cup {<<t, W_Text>> : t \in TypeTexts}]

ColumnText(src) ==
    LET Part(t) == src.sep \o t
    IN  src.name \o Concat(Map(Part, src.types))

FormPieces == {W_Nullable, <<"<">>, <<">">>, W_Text, W_NullableText}

FormTypes == TextsOver(FormPieces, MaxFormPieces)

ColNames == <<W_id, W_name, W_notes, W_extra>>

\* the column lists of the generated table texts: one column of any generated
\* type, the others Int8 (first) or Nullable<Text> (later)
FormCols ==
    {<<>>} \cup
    UNION {UNION {{[i \in 1..m |-> [name |-> ColNames[i],
                                    type |-> IF i = p THEN t
                                             ELSE IF i = 1 THEN W_Int8
                                             ELSE W_NullableText]] : t \in FormTypes}
                  : p \in 1..m} : m \in 1..MaxCols}

\* name ( k1, ..., kn ) { c1 -> t1, ..., cm -> tm }
TableSources ==
    [tag : {"form"}, name : {W_widgets}, pad : {<<>>, <<" ">>},
     keys : {<<>>, <<W_id>>, <<W_id, W_name>>}, cols : FormCols]

TableText(src) ==
    LET ColumnDef(c) == c.name \o <<" ">> \o W_Arrow \o <<" ">> \o c.type
    IN  src.name \o <<" ", "(">> \o src.pad \o join(src.keys, <<",", " ">>) \o src.pad
        \o <<")", " ", "{", " ">> \o join(Map(ColumnDef, src.cols), <<",", " ">>)
        \o <<" ", "}">>

\* number of segments of a generated column body
MaxBodySegs == 3

W_ghost == <<"g", "h", "o", "s", "t">>
W_body == <<"b", "o", "d", "y">>

\* segments of a column body between two commas, each with the columns the
\* specification states for it: none, or one of (name, type, nullable)
BodySegments ==
    {[text |-> <<" ">> \o W_id \o <<" ">> \o W_Arrow \o <<" ">> \o W_Int8,
      cols |-> <<[name |-> W_id, sql_type |-> W_Int8, is_nullable |-> FALSE]>>],
     [text |-> <<" ">> \o W_notes \o W_Arrow \o W_NullableText \o <<" ">>,
      cols |-> <<[name |-> W_notes, sql_type |-> W_Text, is_nullable |-> TRUE]>>],
     [text |-> <<" ">> \o W_name \o <<" ">>, cols |-> <<>>],
     [text |-> <<" ", "a", " ">> \o W_Arrow \o <<" ", "b", " ">> \o W_Arrow \o <<" ", "c">>,
      cols |-> <<>>],
     [text |-> <<" ">>, cols |-> <<>>],
     [text |-> <<" ">> \o W_body \o <<" ">> \o W_Arrow \o <<" ">> \o W_Nullable
               \o <<" ", ">", " ", "<">>,
      cols |-> <<[name |-> W_body, sql_type |-> <<>>, is_nullable |-> TRUE]>>]}

\* texts between the parentheses, each with the key list stated for it
KeyLists ==
    {[text |-> W_id, names |-> <<W_id>>],
     [text |-> <<" ">> \o W_id \o <<" ", ",", " ">> \o W_name \o <<" ">>,
      names |-> <<W_id, W_name>>],
     [text |-> <<" ", ",", " ">> \o W_ghost \o <<",", ",", " ">>, names |-> <<W_ghost>>],
     [text |-> <<>>, names |-> <<>>]}

\* widgets (<keys>) {<segment>,<segment>,...}
BodySources(n) == [tag : {"body"}, pk : KeyLists, segs : SeqsUpTo(BodySegments, n)]

BodyText(src) ==
    LET Text(seg) == seg.text
    IN  W_widgets \o <<" ", "(">> \o src.pk.text \o <<")", " ", "{">>
        \o join(Map(Text, src.segs), <<",">>) \o <<"}">>

W_BracedGhost ==
    <<"{", " ">> \o W_ghost \o <<" ">> \o W_Arrow \o <<" ">> \o W_Text \o <<" ", "}">>

\* texts between the parentheses that hold braces
BracedKeys == {W_id, W_BracedGhost, <<"{">>, <<"}">>}

\* texts between the ')' and the '{' that follows it
BraceGaps == {<<>>, <<" ">>, <<" ">> \o W_extra \o <<" ">>}

\* column bodies without a '}', each with the columns the specification states
\* for it
BraceBodies ==
    {[text |-> <<" ">> \o W_id \o <<" ">> \o W_Arrow \o <<" ">> \o W_Int8 \o <<" ">>,
      cols |-> <<[name |-> W_id, sql_type |-> W_Int8, is_nullable |-> FALSE]>>],
     [text |-> <<" ">> \o W_id \o <<" ">> \o W_Arrow \o <<" ">> \o W_Int8 \o <<",", " ">>
               \o W_notes \o <<" ">> \o W_Arrow \o <<" ">> \o W_NullableText \o <<" ">>,
      cols |-> <<[name |-> W_id, sql_type |-> W_Int8, is_nullable |-> FALSE],
                 [name |-> W_notes, sql_type |-> W_Text, is_nullable |-> TRUE]>>],
     [text |-> <<" ">> \o W_id \o <<" ">> \o W_Arrow \o <<" ", "{", " ">> \o W_Int8 \o <<" ">>,
      cols |-> <<[name |-> W_id, sql_type |-> <<"{", " ">> \o W_Int8,
                  is_nullable |-> FALSE]>>],
     [text |-> <<>>, cols |-> <<>>]}

\* texts after the '}' that closes the column body
BraceTails ==
    {<<>>,
     <<" ">> \o W_extra \o <<" ">> \o W_Arrow \o <<" ">> \o W_Text \o <<" ", "}">>,
     <<" ", "{", " ">> \o W_extra \o <<" ">> \o W_Arrow \o <<" ">> \o W_Text \o <<" ", "}">>,
     <<",", " ">> \o W_extra \o <<" ">> \o W_Arrow \o <<" ">> \o W_Text}

\* widgets (<key>)<gap>{<body>}<tail>
BraceSources ==
    [tag : {"brace"}, key : BracedKeys, gap : BraceGaps, body : BraceBodies,
     tail : BraceTails]

BraceText(src) ==
    W_widgets \o <<" ", "(">> \o src.key \o <<")">> \o src.gap \o <<"{">>
    \o src.body.text \o <<"}">> \o src.tail

\* widgets(id) { id -> Int8 }
T_glued ==
    <<"w", "i", "d", "g", "e", "t", "s", "(", "i", "d", ")", " ", "{", " ",
      "i", "d", " ", "-", ">", " ", "I", "n", "t", "8", " ", "}">>

\* texts whose name runs into the parenthesis of the key list, bare and with
\* whitespace around
GluedTexts == {T_glued, <<" ", "\n">> \o T_glued \o <<" ">>}

RawChars == {"t", " ", "(", ")", "{", "}"}

RawTexts(n) == UNION {[1..k -> RawChars] : k \in 0..n}

-----------------------------------------------------------------------------
(* The values of the variables a specification does not use *)

MainIdle ==
    /\ items = <<>> /\ idx = 0 /\ pc = "idle"
    /\ structs = <<>> /\ diesel_tables = <<>> /\ diesel_derives = <<>>
    /\ output = Idle /\ exit_code = NONE

TableIdle == tokens = <<>> /\ tokens_src = Idle /\ table_result = Idle

ColumnIdle == def = <<>> /\ def_src = Idle /\ column_result = Idle

TypeIdle ==
    /\ ty = Idle /\ call_stack = <<>> /\ ret = Idle /\ calls = 0
    /\ type_result = Idle

StructIdle == struct_item = Idle /\ struct_result = Idle /\ derive_result = Idle

-----------------------------------------------------------------------------
(* parse_column_def applied to one column definition *)

ColumnInit ==
    /\ def_src \in ColumnSources
    /\ def = ColumnText(def_src)
    /\ column_result = Idle
    /\ MainIdle /\ TableIdle /\ TypeIdle /\ StructIdle

ParseColumnDef ==
    /\ column_result = Idle
    /\ column_result' = parse_column_def(def)
    /\ UNCHANGED <<def, def_src, mainVars, tableVars, typeVars, structVars>>

ColumnNext == ParseColumnDef

SpecColumn == ColumnInit /\ [][ColumnNext]_vars

-----------------------------------------------------------------------------
(* parse_diesel_table_tokens applied to one token text *)

TableInit ==
    /\ \/ /\ tokens_src \in TableSources
          /\ tokens = TableText(tokens_src)
       \/ /\ tokens_src \in BodySources(MaxBodySegs)
          /\ tokens = BodyText(tokens_src)
       \/ /\ tokens_src \in BraceSources
          /\ tokens = BraceText(tokens_src)
       \/ /\ tokens \in RawTexts(MaxRawLen) \cup GluedTexts
          /\ tokens_src = [tag |-> "raw"]
    /\ table_result = Idle
    /\ MainIdle /\ ColumnIdle /\ TypeIdle /\ StructIdle

ParseDieselTableTokens ==
    /\ table_result = Idle
    /\ table_result' = parse_diesel_table_tokens(tokens)
    /\ UNCHANGED <<tokens, tokens_src, mainVars, columnVars, typeVars, structVars>>

TableNext == ParseDieselTableTokens

SpecTable == TableInit /\ [][TableNext]_vars

-----------------------------------------------------------------------------
(* syn::Type nodes and extract_type_info *)

W_Option == <<"O", "p", "t", "i", "o", "n">>
W_String == <<"S", "t", "r", "i", "n", "g">>
W_i64 == <<"i", "6", "4">>
W_Vec == <<"V", "e", "c">>
W_alpha == <<"a", "l", "p", "h", "a">>
W_Beta == <<"B", "e", "t", "a">>
W_std == <<"s", "t", "d">>
W_option == <<"o", "p", "t", "i", "o", "n">>
W_Array == <<"A", "r", "r", "a", "y">>
W_Slice == <<"S", "l", "i", "c", "e">>
W_Ptr == <<"P", "t", "r">>
W_Reference == <<"R", "e", "f", "e", "r", "e", "n", "c", "e">>
W_Tuple == <<"T", "u", "p", "l", "e">>
W_Unknown == <<"U", "n", "k", "n", "o", "w", "n">>

\* syn::PathArguments
NoArguments == [kind |-> "None"]
AngleBracketed(args) == [kind |-> "AngleBracketed", args |-> args]
Parenthesized == [kind |-> "Parenthesized"]

\* syn::GenericArgument
TypeArg(t) == [kind |-> "Type", ty |-> t]
LifetimeArg == [kind |-> "Lifetime"]

\* syn::PathSegment and the syn::Type variants
Segment(ident, arguments) == [ident |-> ident, arguments |-> arguments]
PathType(segments) == [kind |-> "Path", segments |-> segments]
ElemType(kind, elem) == [kind |-> kind, elem |-> elem]
TupleType(elems) == [kind |-> "Tuple", elems |-> elems]
OtherType(kind) == [kind |-> kind]

\* a one-segment path without arguments
Named(ident) == PathType(<<Segment(ident, NoArguments)>>)
\* ident<t1, ..., tn>
Generic(ident, ts) == PathType(<<Segment(ident, AngleBracketed(Map(TypeArg, ts)))>>)
OptionOf(t) == Generic(W_Option, <<t>>)
\* std::option::Option<t>
QualifiedOptionOf(t) ==
    PathType(<<Segment(W_std, NoArguments), Segment(W_option, NoArguments),
               Segment(W_Option, AngleBracketed(<<TypeArg(t)>>))>>)

\* is_option_wrapper without the test args.len() == 1
is_option_wrapper_any_arity(t) ==
    /\ t.kind = "Path"
    /\ Len(t.segments) = 1
    /\ t.segments[1].ident = W_Option
    /\ t.segments[1].arguments.kind = "AngleBracketed"
    /\ Len(t.segments[1].arguments.args) >= 1
    /\ t.segments[1].arguments.args[1].kind = "Type"

\* lines 100-108: a one-segment path named Option that carries exactly one
\* angle-bracketed argument, which is a type
is_option_wrapper(t) ==
    /\ t.kind = "Path"
    /\ Len(t.segments) = 1
    /\ t.segments[1].ident = W_Option
    /\ t.segments[1].arguments.kind = "AngleBracketed"
    /\ Len(t.segments[1].arguments.args) = 1
    /\ t.segments[1].arguments.args[1].kind = "Type"

\* line 108: inner_type
inner_type_of(t) == t.segments[1].arguments.args[1].ty

\* unwrapped_info keeping the flag the inner call computed
unwrapped_info_keeps_flag(inner) == inner

\* lines 109-110: the result of the inner call with its flag replaced by true;
\* the ? hands an error of the inner call on
unwrapped_info(inner) ==
    IF inner.tag = "Err" THEN inner ELSE Ok(<<inner.val[1], TRUE>>)

\* full_path_of taking the last segment alone
full_path_of_last_segment(segments) == segments[Len(segments)].ident

\* lines 119-124
full_path_of(segments) ==
    LET Ident(seg) == seg.ident
    IN  join(Map(Ident, segments), W_PathSep)

\* plain_type_info failing on the shapes it has no label for
plain_type_info_rejects_unknown(t) ==
    CASE t.kind = "Path" ->
            IF Len(t.segments) = 1
            THEN Ok(<<t.segments[1].ident, FALSE>>)
            ELSE Ok(<<join([i \in 1..Len(t.segments) |-> t.segments[i].ident], W_PathSep),
                      FALSE>>)
      [] t.kind = "Array" -> Ok(<<W_Array, FALSE>>)
      [] t.kind = "Slice" -> Ok(<<W_Slice, FALSE>>)
      [] t.kind = "Ptr" -> Ok(<<W_Ptr, FALSE>>)
      [] t.kind = "Reference" -> Ok(<<W_Reference, FALSE>>)
      [] t.kind = "Tuple" -> Ok(<<W_Tuple, FALSE>>)
      [] OTHER -> Err(<<"Unsupported type">>)

\* plain_type_info giving slices the label of arrays
plain_type_info_slice_as_array(t) ==
    CASE t.kind = "Path" ->
            IF Len(t.segments) = 1
            THEN Ok(<<t.segments[1].ident, FALSE>>)
            ELSE Ok(<<join([i \in 1..Len(t.segments) |-> t.segments[i].ident], W_PathSep),
                      FALSE>>)
      [] t.kind \in {"Array", "Slice"} -> Ok(<<W_Array, FALSE>>)
      [] t.kind = "Ptr" -> Ok(<<W_Ptr, FALSE>>)
      [] t.kind = "Reference" -> Ok(<<W_Reference, FALSE>>)
      [] t.kind = "Tuple" -> Ok(<<W_Tuple, FALSE>>)
      [] OTHER -> Ok(<<W_Unknown, FALSE>>)

\* plain_type_info setting the flag of a one-segment path on its name alone
plain_type_info_flags_option_name(t) ==
    CASE t.kind = "Path" ->
            IF Len(t.segments) = 1
            THEN Ok(<<t.segments[1].ident, t.segments[1].ident = W_Option>>)
            ELSE Ok(<<full_path_of(t.segments), FALSE>>)
      [] t.kind = "Array" -> Ok(<<W_Array, FALSE>>)
      [] t.kind = "Slice" -> Ok(<<W_Slice, FALSE>>)
      [] t.kind = "Ptr" -> Ok(<<W_Ptr, FALSE>>)
      [] t.kind = "Reference" -> Ok(<<W_Reference, FALSE>>)
      [] t.kind = "Tuple" -> Ok(<<W_Tuple, FALSE>>)
      [] OTHER -> Ok(<<W_Unknown, FALSE>>)

\* lines 116-132: the result for a type that is not unwrapped
plain_type_info(t) ==
    CASE t.kind = "Path" ->
            IF Len(t.segments) = 1
            THEN Ok(<<t.segments[1].ident, FALSE>>)
            ELSE Ok(<<full_path_of(t.segments), FALSE>>)
      [] t.kind = "Array" -> Ok(<<W_Array, FALSE>>)
      [] t.kind = "Slice" -> Ok(<<W_Slice, FALSE>>)
      [] t.kind = "Ptr" -> Ok(<<W_Ptr, FALSE>>)
      [] t.kind = "Reference" -> Ok(<<W_Reference, FALSE>>)
      [] t.kind = "Tuple" -> Ok(<<W_Tuple, FALSE>>)
      [] OTHER -> Ok(<<W_Unknown, FALSE>>)

RECURSIVE extract_type_info(_)
extract_type_info(t) ==
    IF is_option_wrapper(t)
    THEN unwrapped_info(extract_type_info(inner_type_of(t)))
    ELSE plain_type_info(t)

\* nesting depth of the generated types
MaxTypeDepth == 2
\* number of segments of the generated paths
MaxSegments == 3

SegmentIdents == {W_alpha, W_Beta}

SegmentLists ==
    UNION {[1..n -> {Segment(i, NoArguments) : i \in SegmentIdents}] : n \in 2..MaxSegments}

BaseTypes ==
    {Named(W_String), Named(W_i64), Named(W_Option), Named(W_Vec)}
    \cup {PathType(<<Segment(W_Option, Parenthesized)>>),
          PathType(<<Segment(W_Option, AngleBracketed(<<LifetimeArg>>))>>)}
    \cup {PathType(segs) : segs \in SegmentLists}
    \cup {TupleType(<<>>), OtherType("Never"), OtherType("Infer"), OtherType("BareFn")}

WrappedTypes(t) ==
    {OptionOf(t), Generic(W_Vec, <<t>>), Generic(W_Option, <<t, Named(W_i64)>>),
     QualifiedOptionOf(t), ElemType("Array", t), ElemType("Slice", t),
     ElemType("Ptr", t), ElemType("Reference", t), TupleType(<<t, Named(W_i64)>>),
     ElemType("Paren", t)}

RECURSIVE TypesOfDepth(_)
TypesOfDepth(d) ==
    IF d = 0 THEN BaseTypes
    ELSE BaseTypes \cup UNION {WrappedTypes(t) : t \in TypesOfDepth(d - 1)}

-----------------------------------------------------------------------------
(* extract_type_info applied to one type, one call or return per step *)

Top(stack) == stack[Len(stack)]
Pop(stack) == SubSeq(stack, 1, Len(stack) - 1)

TypeInit ==
    /\ ty \in TypesOfDepth(MaxTypeDepth)
    /\ call_stack = <<ty>>
    /\ ret = Idle
    /\ calls = 0
    /\ type_result = Idle
    /\ MainIdle /\ TableIdle /\ ColumnIdle /\ StructIdle

\* line 109: the recursive call on the inner type
RecursiveCall ==
    /\ call_stack # <<>> /\ ret = Idle
    /\ is_option_wrapper(Top(call_stack))
    /\ call_stack' = Append(call_stack, inner_type_of(Top(call_stack)))
    /\ calls' = calls + 1
    /\ UNCHANGED <<ty, ret, type_result, mainVars, tableVars, columnVars, structVars>>

\* lines 116-132: the innermost call returns
ReturnPlain ==
    /\ call_stack # <<>> /\ ret = Idle
    /\ ~is_option_wrapper(Top(call_stack))
    /\ ret' = plain_type_info(Top(call_stack))
    /\ call_stack' = Pop(call_stack)
    /\ UNCHANGED <<ty, calls, type_result, mainVars, tableVars, columnVars, structVars>>

\* lines 109-110: a call that waited for its inner call returns
ReturnUnwrapped ==
    /\ call_stack # <<>> /\ ret # Idle
    /\ ret' = unwrapped_info(ret)
    /\ call_stack' = Pop(call_stack)
    /\ UNCHANGED <<ty, calls, type_result, mainVars, tableVars, columnVars, structVars>>

\* the outermost call has returned to its caller
ReturnToCaller ==
    /\ call_stack = <<>> /\ ret # Idle /\ type_result = Idle
    /\ type_result' = ret
    /\ UNCHANGED <<ty, call_stack, ret, calls, mainVars, tableVars, columnVars, structVars>>

TypeNext == RecursiveCall \/ ReturnPlain \/ ReturnUnwrapped \/ ReturnToCaller

SpecType == TypeInit /\ [][TypeNext]_vars

-----------------------------------------------------------------------------
(* syn::ItemStruct, extract_field_info and extract_struct_info *)

\* attributes are held as the text attr.to_token_stream().to_string() renders
Field(ident, t, attrs) == [ident |-> ident, ty |-> t, attrs |-> attrs]
NamedFields(fields) == [kind |-> "Named", named |-> fields]
UnnamedFields(fields) == [kind |-> "Unnamed", unnamed |-> fields]
UnitFields == [kind |-> "Unit"]
ItemStruct(ident, attrs, fields) == [ident |-> ident, attrs |-> attrs, fields |-> fields]

RustField(name, field_type, is_optional, attributes) ==
    [name |-> name, field_type |-> field_type, is_optional |-> is_optional,
     attributes |-> attributes]

RustStruct(name, fields, attributes) ==
    [name |-> name, fields |-> fields, attributes |-> attributes]

\* extract_field_info leaving the attribute list of the field empty
extract_field_info_drops_attributes(field) ==
    IF field.ident.tag = "None" THEN Err(<<"Unnamed field">>)
    ELSE LET type_info == extract_type_info(field.ty)
         IN  IF type_info.tag = "Err" THEN type_info
             ELSE Ok(RustField(field.ident.val, type_info.val[1], type_info.val[2],
                               <<>>))

extract_field_info(field) ==
    IF field.ident.tag = "None" THEN Err(<<"Unnamed field">>)
    ELSE LET type_info == extract_type_info(field.ty)
         IN  IF type_info.tag = "Err" THEN type_info
             ELSE Ok(RustField(field.ident.val, type_info.val[1], type_info.val[2],
                               field.attrs))

extract_struct_info(s) ==
    CASE s.fields.kind = "Named" ->
            LET infos == Map(extract_field_info, s.fields.named)
                failed == {i \in 1..Len(infos) : infos[i].tag = "Err"}
                Value(r) == r.val
            IN  IF failed # {}
                THEN Err(<<"Field error: ">> \o infos[Least(failed)].err)
                ELSE Ok(RustStruct(s.ident, Map(Value, infos), s.attrs))
      [] s.fields.kind = "Unnamed" -> Err(<<"Tuple structs not supported">>)
      [] s.fields.kind = "Unit" -> Ok(RustStruct(s.ident, <<>>, s.attrs))

-----------------------------------------------------------------------------
(* extract_diesel_derives: a scan of the rendered attribute texts *)

W_Queryable == <<"Q", "u", "e", "r", "y", "a", "b", "l", "e">>
W_Insertable == <<"I", "n", "s", "e", "r", "t", "a", "b", "l", "e">>
W_AsChangeset == <<"A", "s", "C", "h", "a", "n", "g", "e", "s", "e", "t">>
W_Associations == <<"A", "s", "s", "o", "c", "i", "a", "t", "i", "o", "n", "s">>
W_Identifiable == <<"I", "d", "e", "n", "t", "i", "f", "i", "a", "b", "l", "e">>
W_derive == <<"d", "e", "r", "i", "v", "e">>
W_table_name == <<"t", "a", "b", "l", "e", "_", "n", "a", "m", "e">>
W_EqQuote == <<"=", " ", "\"">>

\* lines 148-162, in the order of the checks
DeriveChecklist ==
    <<W_Queryable, W_Insertable, W_AsChangeset, W_Associations, W_Identifiable>>

\* "# [word" or "#[word"
has_opening(attr_str, word) ==
    \/ contains(attr_str, <<"#", " ", "[">> \o word)
    \/ contains(attr_str, <<"#", "[">> \o word)

\* derives_of without the test of line 146 for the derive opening
derives_of_any_attribute(attr_str) ==
    LET Named_in(w) == contains(attr_str, w)
    IN  SelectSeq(DeriveChecklist, Named_in)

\* lines 146-163: what one attribute adds to derives
derives_of(attr_str) ==
    LET Named_in(w) == contains(attr_str, w)
    IN  IF has_opening(attr_str, W_derive)
        THEN SelectSeq(DeriveChecklist, Named_in)
        ELSE <<>>

\* associations_of reading the binding wherever table_name is written, quoted
\* or not, as the nested form # [diesel (table_name = simples)] needs
associations_of_reads_nested(attr_str) ==
    LET at == find_str(attr_str, W_table_name \o <<" ", "=", " ">>)
    IN  IF at = NONE THEN <<>>
        ELSE LET rest == slice_from(attr_str, at + Len(W_table_name) + 3)
                 quoted == rest # <<>> /\ rest[1] = "\""
                 value == IF quoted THEN slice_from(rest, 1) ELSE rest
                 ends == {i \in 1..Len(value) : value[i] \in {")", "]", "\"", " "}}
             IN  IF ends = {} THEN <<>>
                 ELSE <<SubSeq(value, 1, Least(ends) - 1)>>

\* associations_of dropping a table name that is the empty string
associations_of_skips_empty(attr_str) ==
    IF has_opening(attr_str, W_table_name)
    THEN LET start == find_str(attr_str, W_EqQuote)
         IN  IF start = NONE THEN <<>>
             ELSE LET end == find_char(slice_from(attr_str, start + 3), "\"")
                  IN  IF end = NONE \/ end = 0 THEN <<>>
                      ELSE <<slice(attr_str, start + 3, start + 3 + end)>>
    ELSE <<>>

\* lines 166-174: what one attribute adds to associations
associations_of(attr_str) ==
    IF has_opening(attr_str, W_table_name)
    THEN LET start == find_str(attr_str, W_EqQuote)
         IN  IF start = NONE THEN <<>>
             ELSE LET end == find_char(slice_from(attr_str, start + 3), "\"")
                  IN  IF end = NONE THEN <<>>
                      ELSE <<slice(attr_str, start + 3, start + 3 + end)>>
    ELSE <<>>

DieselDerive(struct_name, derives, associations) ==
    [struct_name |-> struct_name, derives |-> derives, associations |-> associations]

\* extract_diesel_derives without the emptiness test of line 177
extract_diesel_derives_always_emits(s) ==
    Some(DieselDerive(s.ident, Concat(Map(derives_of, s.attrs)),
                      Concat(Map(associations_of, s.attrs))))

extract_diesel_derives(s) ==
    LET derives == Concat(Map(derives_of, s.attrs))
        associations == Concat(Map(associations_of, s.attrs))
    IN  IF derives = <<>> /\ associations = <<>>
        THEN None
        ELSE Some(DieselDerive(s.ident, derives, associations))

-----------------------------------------------------------------------------
(* Input declarations *)

W_Simple == <<"S", "i", "m", "p", "l", "e">>
W_Pair == <<"P", "a", "i", "r">>
W_Marker == <<"M", "a", "r", "k", "e", "r">>
W_value == <<"v", "a", "l", "u", "e">>
W_table == <<"t", "a", "b", "l", "e">>
W_diesel == <<"d", "i", "e", "s", "e", "l">>
W_joinable == <<"j", "o", "i", "n", "a", "b", "l", "e">>

\* # [derive (Debug , Queryable , Insertable)]
A_derive_queryable ==
    <<"#", " ", "[", "d", "e", "r", "i", "v", "e", " ", "(", "D", "e", "b",
      "u", "g", " ", ",", " ", "Q", "u", "e", "r", "y", "a", "b", "l", "e",
      " ", ",", " ", "I", "n", "s", "e", "r", "t", "a", "b", "l", "e", ")",
      "]">>

\* # [derive (Debug , Clone)]
A_derive_debug ==
    <<"#", " ", "[", "d", "e", "r", "i", "v", "e", " ", "(", "D", "e", "b",
      "u", "g", " ", ",", " ", "C", "l", "o", "n", "e", ")", "]">>

\* # [derive (QueryableByName)]
A_derive_by_name ==
    <<"#", " ", "[", "d", "e", "r", "i", "v", "e", " ", "(", "Q", "u", "e",
      "r", "y", "a", "b", "l", "e", "B", "y", "N", "a", "m", "e", ")", "]">>

\* # [table_name = "simples"]
A_table_name ==
    <<"#", " ", "[", "t", "a", "b", "l", "e", "_", "n", "a", "m", "e", " ",
      "=", " ", "\"", "s", "i", "m", "p", "l", "e", "s", "\"", "]">>

\* # [diesel (table_name = simples)]
A_diesel_table_name ==
    <<"#", " ", "[", "d", "i", "e", "s", "e", "l", " ", "(", "t", "a", "b",
      "l", "e", "_", "n", "a", "m", "e", " ", "=", " ", "s", "i", "m", "p",
      "l", "e", "s", ")", "]">>

\* # [serde (skip)]
A_serde_skip ==
    <<"#", " ", "[", "s", "e", "r", "d", "e", " ", "(", "s", "k", "i", "p",
      ")", "]">>

\* # [derive (Identifiable , AsChangeset , Queryable)]
A_derive_reversed ==
    <<"#", " ", "[", "d", "e", "r", "i", "v", "e", " ", "(", "I", "d", "e",
      "n", "t", "i", "f", "i", "a", "b", "l", "e", " ", ",", " ", "A", "s",
      "C", "h", "a", "n", "g", "e", "s", "e", "t", " ", ",", " ", "Q", "u",
      "e", "r", "y", "a", "b", "l", "e", ")", "]">>

\* #[derive(Associations)]
A_derive_compact ==
    <<"#", "[", "d", "e", "r", "i", "v", "e", "(", "A", "s", "s", "o", "c",
      "i", "a", "t", "i", "o", "n", "s", ")", "]">>

\* # [doc = "Queryable"]
A_doc_queryable ==
    <<"#", " ", "[", "d", "o", "c", " ", "=", " ", "\"", "Q", "u", "e", "r",
      "y", "a", "b", "l", "e", "\"", "]">>

\* # [cfg_attr (test , derive (Insertable))]
A_cfg_attr_derive ==
    <<"#", " ", "[", "c", "f", "g", "_", "a", "t", "t", "r", " ", "(", "t",
      "e", "s", "t", " ", ",", " ", "d", "e", "r", "i", "v", "e", " ", "(",
      "I", "n", "s", "e", "r", "t", "a", "b", "l", "e", ")", ")", "]">>

\* # [table_name = ""]
A_table_name_empty ==
    <<"#", " ", "[", "t", "a", "b", "l", "e", "_", "n", "a", "m", "e", " ",
      "=", " ", "\"", "\"", "]">>

\* # [table_name (simples)]
A_table_name_paren ==
    <<"#", " ", "[", "t", "a", "b", "l", "e", "_", "n", "a", "m", "e", " ",
      "(", "s", "i", "m", "p", "l", "e", "s", ")", "]">>

\* # [table_name = "simples
A_table_name_open ==
    <<"#", " ", "[", "t", "a", "b", "l", "e", "_", "n", "a", "m", "e", " ",
      "=", " ", "\"", "s", "i", "m", "p", "l", "e", "s">>

\* #[table_name = "a" , schema = "b"]
A_table_name_two ==
    <<"#", "[", "t", "a", "b", "l", "e", "_", "n", "a", "m", "e", " ", "=",
      " ", "\"", "a", "\"", " ", ",", " ", "s", "c", "h", "e", "m", "a",
      " ", "=", " ", "\"", "b", "\"", "]">>

\* attribute texts that put the two detections to the test: names in another
\* order, the compact opening, names without the opening, and table names
\* that are empty, unquoted, unclosed or followed by a second binding
ScanAttrTexts ==
    {A_derive_reversed, A_derive_compact, A_doc_queryable, A_cfg_attr_derive,
     A_table_name_empty, A_table_name_paren, A_table_name_open, A_table_name_two}

\* number of attributes of a generated struct
MaxAttrs == 2
\* number of fields of a generated struct
MaxFields == 2

AttrTexts ==
    {A_derive_queryable, A_derive_debug, A_derive_by_name, A_table_name,
     A_diesel_table_name}

FieldIdents == <<W_id, W_name, W_value>>

FieldTypes ==
    {Named(W_String), OptionOf(Named(W_i64)), OptionOf(OptionOf(Named(W_String))),
     Named(W_Option), Generic(W_Vec, <<Named(W_String)>>),
     PathType(<<Segment(W_alpha, NoArguments), Segment(W_Beta, NoArguments)>>),
     ElemType("Array", Named(W_i64)), ElemType("Slice", Named(W_i64)),
     ElemType("Ptr", Named(W_i64)), ElemType("Reference", Named(W_String)),
     TupleType(<<Named(W_i64), Named(W_i64)>>), OtherType("Never"),
     OptionOf(OtherType("BareFn"))}

\* the named field lists: field i is called FieldIdents[i]
NamedFieldLists(n) ==
    UNION {{[i \in 1..k |-> Field(Some(FieldIdents[i]), f[i][1], f[i][2])] :
              f \in [1..k -> FieldTypes \X {<<>>, <<A_serde_skip>>}]} : k \in 0..n}

\* the positional field lists of tuple structs
UnnamedFieldLists ==
    {<<>>, <<Field(None, Named(W_i64), <<>>)>>,
     <<Field(None, Named(W_String), <<>>), Field(None, OptionOf(Named(W_i64)), <<>>)>>}

\* named field lists that repeat a field name: syn parses them, only the
\* compiler rejects them
RepeatedNameFieldLists ==
    {<<Field(Some(W_id), Named(W_i64), <<>>), Field(Some(W_id), Named(W_String), <<>>)>>,
     <<Field(Some(W_id), Named(W_i64), <<>>), Field(Some(W_name), Named(W_String), <<>>),
       Field(Some(W_id), OptionOf(Named(W_i64)), <<>>)>>}

\* the generated structs: every attribute list on a fixed struct of each field
\* shape, every field list under a fixed attribute list, every list of the
\* attribute texts of ScanAttrTexts on a unit struct, and the field lists that
\* repeat a name
StructDecls(a, n) ==
    {ItemStruct(W_Simple, attrs, fields) :
        attrs \in SeqsUpTo(AttrTexts, a),
        fields \in {NamedFields(<<Field(Some(W_id), Named(W_i64), <<>>)>>), UnitFields}
                   \cup {UnnamedFields(fs) : fs \in UnnamedFieldLists}}
    \cup {ItemStruct(W_Pair, <<A_derive_queryable>>, NamedFields(fs)) : fs \in NamedFieldLists(n)}
    \cup {ItemStruct(W_Marker, attrs, UnitFields) : attrs \in SeqsUpTo(ScanAttrTexts, a)}
    \cup {ItemStruct(W_Pair, <<>>, NamedFields(fs)) : fs \in RepeatedNameFieldLists}

-----------------------------------------------------------------------------
(* extract_struct_info and extract_diesel_derives applied to one struct *)

StructInit ==
    /\ struct_item \in StructDecls(MaxAttrs, MaxFields)
    /\ struct_result = Idle
    /\ derive_result = Idle
    /\ MainIdle /\ TableIdle /\ ColumnIdle /\ TypeIdle

ExtractStructInfo ==
    /\ struct_result = Idle
    /\ struct_result' = extract_struct_info(struct_item)
    /\ UNCHANGED <<struct_item, derive_result, mainVars, tableVars, columnVars, typeVars>>

ExtractDieselDerives ==
    /\ derive_result = Idle
    /\ derive_result' = extract_diesel_derives(struct_item)
    /\ UNCHANGED <<struct_item, struct_result, mainVars, tableVars, columnVars, typeVars>>

StructNext == ExtractStructInfo \/ ExtractDieselDerives

SpecStruct == StructInit /\ [][StructNext]_vars

-----------------------------------------------------------------------------
(* extract_diesel_table and the declarations of a parsed file *)

\* syn::Item: a struct, a macro invocation (path and rendered tokens), other
StructItem(s) == [kind |-> "Struct", item |-> s]
MacroItem(path, toks) == [kind |-> "Macro", path |-> path, tokens |-> toks]
OtherItem == [kind |-> "Other"]

\* extract_diesel_table comparing the last path segment with "table"
extract_diesel_table_last_segment(macro_item) ==
    IF Len(macro_item.path) > 0 /\ macro_item.path[Len(macro_item.path)] = W_table
    THEN parse_diesel_table_tokens(macro_item.tokens)
    ELSE None

extract_diesel_table(macro_item) ==
    IF Len(macro_item.path) > 0 /\ macro_item.path[1] = W_table
    THEN parse_diesel_table_tokens(macro_item.tokens)
    ELSE None

\* widgets (id) { id -> Int8 , name -> Text , notes -> Nullable < Text > , }
T_widgets ==
    <<"w", "i", "d", "g", "e", "t", "s", " ", "(", "i", "d", ")", " ", "{",
      " ", "i", "d", " ", "-", ">", " ", "I", "n", "t", "8", " ", ",", " ",
      "n", "a", "m", "e", " ", "-", ">", " ", "T", "e", "x", "t", " ", ",",
      " ", "n", "o", "t", "e", "s", " ", "-", ">", " ", "N", "u", "l", "l",
      "a", "b", "l", "e", " ", "<", " ", "T", "e", "x", "t", " ", ">", " ",
      ",", " ", "}">>

\* posts (id) { id -> Int8 , body -> Nullable > < }
T_reversed ==
    <<"p", "o", "s", "t", "s", " ", "(", "i", "d", ")", " ", "{", " ", "i",
      "d", " ", "-", ">", " ", "I", "n", "t", "8", " ", ",", " ", "b", "o",
      "d", "y", " ", "-", ">", " ", "N", "u", "l", "l", "a", "b", "l", "e",
      " ", ">", " ", "<", " ", "}">>

\* posts -> users (user_id)
T_joinable ==
    <<"p", "o", "s", "t", "s", " ", "-", ">", " ", "u", "s", "e", "r", "s",
      " ", "(", "u", "s", "e", "r", "_", "i", "d", ")">>

\* posts (id) { id -> Int8 }
T_posts ==
    <<"p", "o", "s", "t", "s", " ", "(", "i", "d", ")", " ", "{", " ", "i",
      "d", " ", "-", ">", " ", "I", "n", "t", "8", " ", "}">>

\* number of declarations of a generated file
MaxItems == 3

ItemPool ==
    {StructItem(ItemStruct(W_Simple, <<A_derive_queryable, A_table_name>>,
                NamedFields(<<Field(Some(W_id), Named(W_i64), <<>>),
                              Field(Some(W_name), OptionOf(Named(W_String)),
                                    <<A_serde_skip>>)>>))),
     StructItem(ItemStruct(W_Pair, <<>>,
                NamedFields(<<Field(Some(W_value), ElemType("Reference", Named(W_String)),
                                    <<>>)>>))),
     StructItem(ItemStruct(W_Marker, <<A_derive_debug>>, UnitFields)),
     StructItem(ItemStruct(W_widgets, <<A_derive_queryable>>,
                UnnamedFields(<<Field(None, Named(W_i64), <<>>)>>))),
     MacroItem(<<W_table>>, T_widgets),
     MacroItem(<<W_table>>, W_widgets),
     MacroItem(<<W_table>>, T_reversed),
     MacroItem(<<W_diesel, W_table>>, T_widgets),
     MacroItem(<<W_joinable>>, T_joinable),
     OtherItem}

W_x == <<"x">>

\* invocations with a path-qualified name (table::x!, diesel::table!,
\* diesel::joinable!) and an invocation of another name over a table text
QualifiedPool ==
    {MacroItem(<<W_table, W_x>>, T_widgets),
     MacroItem(<<W_table, W_x>>, T_reversed),
     MacroItem(<<W_table, W_x>>, T_posts),
     MacroItem(<<W_diesel, W_table>>, T_widgets),
     MacroItem(<<W_diesel, W_joinable>>, T_joinable),
     MacroItem(<<W_joinable>>, T_widgets)}

-----------------------------------------------------------------------------
(* main: the loop over the declarations, lines 298-336 *)

OutputDocument == [structs |-> structs, diesel_tables |-> diesel_tables,
                   diesel_derives |-> diesel_derives]

MainInit ==
    /\ items \in SeqsUpTo(ItemPool, MaxItems) \cup SeqsUpTo(QualifiedPool, MaxItems)
    /\ idx = 1
    /\ pc = "processing"
    /\ structs = <<>> /\ diesel_tables = <<>> /\ diesel_derives = <<>>
    /\ output = None
    /\ exit_code = NONE
    /\ TableIdle /\ ColumnIdle /\ TypeIdle /\ StructIdle

AtItem(kind) == pc = "processing" /\ idx <= Len(items) /\ items[idx].kind = kind

\* the Ok arm assigning the struct to the collection instead of pushing it
StructExtracted_replaces_structs ==
    /\ AtItem("Struct")
    /\ LET rust_struct == extract_struct_info(items[idx].item)
           derive_info == extract_diesel_derives(items[idx].item)
       IN  /\ rust_struct.tag = "Ok"
           /\ structs' = <<rust_struct.val>>
           /\ diesel_derives' = IF derive_info.tag = "Some"
                                THEN Append(diesel_derives, derive_info.val)
                                ELSE diesel_derives
    /\ idx' = idx + 1
    /\ UNCHANGED <<items, pc, diesel_tables, output, exit_code>>
    /\ UNCHANGED <<tableVars, columnVars, typeVars, structVars>>

\* lines 306-318, the Ok arm: the struct is collected, then its derives
StructExtracted ==
    /\ AtItem("Struct")
    /\ LET rust_struct == extract_struct_info(items[idx].item)
           derive_info == extract_diesel_derives(items[idx].item)
       IN  /\ rust_struct.tag = "Ok"
           /\ structs' = Append(structs, rust_struct.val)
           /\ diesel_derives' = IF derive_info.tag = "Some"
                                THEN Append(diesel_derives, derive_info.val)
                                ELSE diesel_derives
    /\ idx' = idx + 1
    /\ UNCHANGED <<items, pc, diesel_tables, output, exit_code>>
    /\ UNCHANGED <<tableVars, columnVars, typeVars, structVars>>

\* the Err arm without the exit: the failed struct is skipped
StructFailed_skips ==
    /\ AtItem("Struct")
    /\ extract_struct_info(items[idx].item).tag = "Err"
    /\ idx' = idx + 1
    /\ UNCHANGED <<items, pc, structs, diesel_tables, diesel_derives, output, exit_code>>
    /\ UNCHANGED <<tableVars, columnVars, typeVars, structVars>>

\* the Err arm scanning the derives of the failed struct before the exit
StructFailed_scans_derives ==
    /\ AtItem("Struct")
    /\ extract_struct_info(items[idx].item).tag = "Err"
    /\ LET derive_info == extract_diesel_derives(items[idx].item)
       IN  diesel_derives' = IF derive_info.tag = "Some"
                             THEN Append(diesel_derives, derive_info.val)
                             ELSE diesel_derives
    /\ pc' = "aborted"
    /\ exit_code' = 1
    /\ UNCHANGED <<items, idx, structs, diesel_tables, output>>
    /\ UNCHANGED <<tableVars, columnVars, typeVars, structVars>>

\* lines 309-312, the Err arm: std::process::exit(1)
StructFailed ==
    /\ AtItem("Struct")
    /\ extract_struct_info(items[idx].item).tag = "Err"
    /\ pc' = "aborted"
    /\ exit_code' = 1
    /\ UNCHANGED <<items, idx, structs, diesel_tables, diesel_derives, output>>
    /\ UNCHANGED <<tableVars, columnVars, typeVars, structVars>>

\* the macro arm putting the new table in front of the collected ones
MacroHandled_prepends ==
    /\ AtItem("Macro")
    /\ LET table == extract_diesel_table(items[idx])
       IN  /\ table # Panic
           /\ diesel_tables' = IF table.tag = "Some"
                               THEN <<table.val>> \o diesel_tables
                               ELSE diesel_tables
    /\ idx' = idx + 1
    /\ UNCHANGED <<items, pc, structs, diesel_derives, output, exit_code>>
    /\ UNCHANGED <<tableVars, columnVars, typeVars, structVars>>

\* the macro arm emptying the collection when an invocation is skipped
MacroHandled_clears_on_skip ==
    /\ AtItem("Macro")
    /\ LET table == extract_diesel_table(items[idx])
       IN  /\ table # Panic
           /\ diesel_tables' = IF table.tag = "Some"
                               THEN Append(diesel_tables, table.val)
                               ELSE <<>>
    /\ idx' = idx + 1
    /\ UNCHANGED <<items, pc, structs, diesel_derives, output, exit_code>>
    /\ UNCHANGED <<tableVars, columnVars, typeVars, structVars>>

\* the macro arm without the advance to the next declaration
MacroHandled_stays ==
    /\ AtItem("Macro")
    /\ LET table == extract_diesel_table(items[idx])
       IN  /\ table # Panic
           /\ diesel_tables' = IF table.tag = "Some"
                               THEN Append(diesel_tables, table.val)
                               ELSE diesel_tables
    /\ idx' = idx
    /\ UNCHANGED <<items, pc, structs, diesel_derives, output, exit_code>>
    /\ UNCHANGED <<tableVars, columnVars, typeVars, structVars>>

\* lines 319-323
MacroHandled ==
    /\ AtItem("Macro")
    /\ LET table == extract_diesel_table(items[idx])
       IN  /\ table # Panic
           /\ diesel_tables' = IF table.tag = "Some"
                               THEN Append(diesel_tables, table.val)
                               ELSE diesel_tables
    /\ idx' = idx + 1
    /\ UNCHANGED <<items, pc, structs, diesel_derives, output, exit_code>>
    /\ UNCHANGED <<tableVars, columnVars, typeVars, structVars>>

\* lines 319-323 when the slice of line 269 panics: the process unwinds out of
\* main with the panic exit status and prints no document
MacroPanicked ==
    /\ AtItem("Macro")
    /\ extract_diesel_table(items[idx]) = Panic
    /\ pc' = "aborted"
    /\ exit_code' = 101
    /\ UNCHANGED <<items, idx, structs, diesel_tables, diesel_derives, output>>
    /\ UNCHANGED <<tableVars, columnVars, typeVars, structVars>>

\* line 324
OtherIgnored ==
    /\ AtItem("Other")
    /\ idx' = idx + 1
    /\ UNCHANGED <<items, pc, structs, diesel_tables, diesel_derives, output, exit_code>>
    /\ UNCHANGED <<tableVars, columnVars, typeVars, structVars>>

\* lines 328-335
PrintOutput ==
    /\ pc = "processing" /\ idx > Len(items)
    /\ output' = Some(OutputDocument)
    /\ pc' = "done"
    /\ exit_code' = 0
    /\ UNCHANGED <<items, idx, structs, diesel_tables, diesel_derives>>
    /\ UNCHANGED <<tableVars, columnVars, typeVars, structVars>>

Next ==
    \/ StructExtracted
    \/ StructFailed
    \/ MacroHandled
    \/ MacroPanicked
    \/ OtherIgnored
    \/ PrintOutput

Spec == MainInit /\ [][Next]_vars

\* what every step of Next does to the position of the loop: the loop moves to
\* the next declaration, or the run ends
LoopStep ==
    /\ pc = "processing"
    /\ \/ idx' = idx + 1 /\ pc' = pc
       \/ idx' = idx /\ pc' \in {"done", "aborted"}

\* the loop is sequential code: while it is processing it takes its next step
FairSpec == Spec /\ WF_<<idx, pc>>(LoopStep)

-----------------------------------------------------------------------------
(* Properties of the run (Spec, FairSpec) *)

IsTupleStruct(item) == item.kind = "Struct" /\ item.item.fields.kind = "Unnamed"

HasTupleStruct == \E k \in 1..Len(items) : IsTupleStruct(items[k])

\* while the run is processing, one of the steps of Next can be taken
LoopCanStep ==
    pc = "processing" =>
        \/ idx > Len(items)
        \/ /\ items[idx].kind = "Struct"
           /\ extract_struct_info(items[idx].item).tag \in {"Ok", "Err"}
        \/ /\ items[idx].kind = "Macro"
           /\ extract_diesel_table(items[idx]).tag \in {"Some", "None", "Panic"}
        \/ items[idx].kind = "Other"

\* C1: when the file holds a tuple struct, at whatever position, the run never
\* passes it, never reaches done and never prints a document, and it ends
\* aborted with nothing printed: the records collected from the earlier
\* declarations are not observable.
C1_TupleStructAbortsRun ==
    /\ [](HasTupleStruct =>
            /\ pc # "done"
            /\ output = None
            /\ LoopCanStep
            /\ \A k \in 1..Len(items) : IsTupleStruct(items[k]) => idx <= k)
    /\ (HasTupleStruct ~> (pc = "aborted" /\ output = None))

\* a tuple struct in third place aborts a run that has collected a struct, a
\* derive record and a table
C1_Witness ==
    /\ pc = "aborted" /\ exit_code = 1 /\ output = None
    /\ idx = 3 /\ IsTupleStruct(items[idx])
    /\ Len(structs) = 1 /\ Len(diesel_derives) = 1 /\ Len(diesel_tables) = 1

\* C2: a tuple struct is the only way a run aborts: whenever the run is
\* aborted, it is by the exit of the failed struct extraction, at a tuple
\* struct; no call of the table parser, the column parser or the attribute
\* scan ends the run.
C2_OnlyTupleStructAborts ==
    pc = "aborted" => (exit_code = 1 /\ IsTupleStruct(items[idx]))

-----------------------------------------------------------------------------
(* Properties of extract_struct_info (SpecStruct) *)

\* the struct has the named or the unit shape, and each field has its name
AllFieldsNamed(s) ==
    \/ s.fields.kind = "Unit"
    \/ /\ s.fields.kind = "Named"
       /\ \A i \in 1..Len(s.fields.named) : s.fields.named[i].ident.tag = "Some"

\* C3: for a struct whose fields are all named, whatever their types and
\* attributes, extract_struct_info returns a RustStruct and never an error.
C3_NamedFieldsNeverFail ==
    (struct_result # Idle /\ AllFieldsNamed(struct_item)) => struct_result.tag = "Ok"

\* a struct with two named fields, of a type without a label and of an
\* optional type, one carrying an attribute, is extracted
C3_Witness ==
    /\ struct_result # Idle /\ struct_result.tag = "Ok"
    /\ struct_item.fields.kind = "Named"
    /\ Len(struct_item.fields.named) = 2
    /\ struct_item.fields.named[1].ty = OtherType("Never")
    /\ struct_item.fields.named[2].ty = OptionOf(OtherType("BareFn"))
    /\ struct_item.fields.named[2].attrs # <<>>
    /\ Len(struct_result.val.fields) = 2

-----------------------------------------------------------------------------
(* Properties of parse_diesel_table_tokens (SpecTable) *)

\* the offsets (from 1) at which character c occurs in text
Occurrences(text, c) == {i \in 1..Len(text) : text[i] = c}

\* w occurs in text
HasSubtext(text, w) ==
    \E i \in 1..(Len(text) - Len(w) + 1) : SubSeq(text, i, i + Len(w) - 1) = w

\* text is Nullable<Inner> for some Inner
IsNullableForm(text) ==
    /\ Len(text) >= Len(W_Nullable) + 2
    /\ SubSeq(text, 1, Len(W_Nullable) + 1) = W_Nullable \o <<"<">>
    /\ text[Len(text)] = ">"

NullableInner(text) == SubSeq(text, Len(W_Nullable) + 2, Len(text) - 1)

\* the record the claim states for a text of the form: the name, the keys in
\* order, and per column (type, false) or (Inner, true)
TableOfForm(src) ==
    [name |-> src.name,
     primary_key |-> src.keys,
     columns |-> [i \in 1..Len(src.cols) |->
                    IF IsNullableForm(src.cols[i].type)
                    THEN [name |-> src.cols[i].name,
                          sql_type |-> NullableInner(src.cols[i].type),
                          is_nullable |-> TRUE]
                    ELSE [name |-> src.cols[i].name,
                          sql_type |-> src.cols[i].type,
                          is_nullable |-> FALSE]]]

\* widgets (id) { id -> Int8, name -> Text, notes -> Nullable<Text> }
WidgetsText ==
    <<"w", "i", "d", "g", "e", "t", "s", " ", "(", "i", "d", ")", " ", "{",
      " ", "i", "d", " ", "-", ">", " ", "I", "n", "t", "8", ",", " ", "n",
      "a", "m", "e", " ", "-", ">", " ", "T", "e", "x", "t", ",", " ", "n",
      "o", "t", "e", "s", " ", "-", ">", " ", "N", "u", "l", "l", "a", "b",
      "l", "e", "<", "T", "e", "x", "t", ">", " ", "}">>

WidgetsTable ==
    [name |-> W_widgets,
     primary_key |-> <<W_id>>,
     columns |-> <<[name |-> W_id, sql_type |-> W_Int8, is_nullable |-> FALSE],
                   [name |-> W_name, sql_type |-> W_Text, is_nullable |-> FALSE],
                   [name |-> W_notes, sql_type |-> W_Text, is_nullable |-> TRUE]>>]

\* C4 as stated: every text of the form, with types free of whitespace, comma,
\* parenthesis, brace and "->", parses to the record of its name, keys and
\* columns, each type either Nullable<Inner>, giving (Inner, true), or plain,
\* giving (type, false).
C4_FormParsesToItsRecord ==
    (table_result # Idle /\ tokens_src.tag = "form") =>
        table_result = Some(TableOfForm(tokens_src))

\* a plain type the amended claim covers: it lacks "Nullable", '<' or '>'
LacksWrapperPart(text) ==
    \/ ~HasSubtext(text, W_Nullable)
    \/ Occurrences(text, "<") = {}
    \/ Occurrences(text, ">") = {}

\* C4 amended: the same, for the texts whose types are each Nullable<Inner> or
\* lack one of "Nullable", '<' and '>'; the text of the widgets example gives
\* the record of the example.
C4_CoveredFormParsesToItsRecord ==
    /\ (/\ table_result # Idle /\ tokens_src.tag = "form"
        /\ \A i \in 1..Len(tokens_src.cols) :
              \/ IsNullableForm(tokens_src.cols[i].type)
              \/ LacksWrapperPart(tokens_src.cols[i].type))
       => table_result = Some(TableOfForm(tokens_src))
    /\ (table_result # Idle /\ tokens = WidgetsText)
       => table_result = Some(WidgetsTable)

\* the widgets example has been parsed
C4_Witness ==
    /\ tokens = WidgetsText
    /\ tokens_src.tag = "form"
    /\ table_result = Some(WidgetsTable)

\* the conditions of C5 on the trimmed text
NoWhitespaceIn(c) == \A i \in 1..Len(c) : c[i] \notin WhiteSpace

CloseBeforeOpen(c) ==
    LET opens == Occurrences(c, "(")
        closes == Occurrences(c, ")")
    IN  opens # {} /\ closes # {} /\ Least(closes) < Least(opens)

\* no '{' after the first ')'
NoOpenBraceAfterClose(c) ==
    LET closes == Occurrences(c, ")")
    IN  /\ closes # {}
        /\ LET first == Least(closes)
           IN  \A i \in Occurrences(c, "{") : i < first

\* no '}' after the first '{' that follows the first ')'
NoCloseBraceAfterOpen(c) ==
    LET closes == Occurrences(c, ")")
    IN  /\ closes # {}
        /\ LET first == Least(closes)
               after == {i \in Occurrences(c, "{") : i > first}
           IN  /\ after # {}
               /\ LET brace == Least(after)
                  IN  \A j \in Occurrences(c, "}") : j < brace

\* C5: the parser returns no table and no error when the trimmed text has no
\* whitespace, no '(', no ')', its ')' before its '(', no '{' after that ')',
\* or no '}' after that '{': once it has returned, either it returned nothing
\* or the text is none of these.
C5_MalformedTextIsSkipped ==
    LET c == trim(tokens)
        Malformed ==
            \/ NoWhitespaceIn(c)
            \/ Occurrences(c, "(") = {}
            \/ Occurrences(c, ")") = {}
            \/ CloseBeforeOpen(c)
            \/ NoOpenBraceAfterClose(c)
            \/ NoCloseBraceAfterOpen(c)
    IN  table_result # Idle => (table_result = None \/ ~Malformed)

\* a text with its braces before its parentheses has been skipped
C5_Witness ==
    /\ tokens = <<"t", " ", "{", "}", "(", ")">>
    /\ NoOpenBraceAfterClose(trim(tokens))
    /\ table_result = None

-----------------------------------------------------------------------------
(* Properties of parse_column_def (SpecColumn) *)

\* C6: a column whose type text contains "Nullable" and no '<' gets
\* is_nullable = false and the trimmed type text itself as sql_type.
C6_NullableWithoutBracketKept ==
    (/\ column_result # Idle
     /\ Len(def_src.types) = 1
     /\ HasSubtext(def_src.types[1], W_Nullable)
     /\ Occurrences(def_src.types[1], "<") = {})
    => column_result = Some(<<def_src.name, trim(def_src.types[1]), FALSE>>)

\* the column of type NullableThing has been parsed
C6_Witness ==
    /\ Len(def_src.types) = 1 /\ def_src.types[1] = W_NullableThing
    /\ column_result = Some(<<def_src.name, W_NullableThing, FALSE>>)

-----------------------------------------------------------------------------
(* Properties of extract_type_info (SpecType) *)

\* t is written Option<X> for a type X
IsOptionOf(t) ==
    /\ t.kind = "Path"
    /\ Len(t.segments) = 1
    /\ t.segments[1].arguments.kind = "AngleBracketed"
    /\ Len(t.segments[1].arguments.args) = 1
    /\ t.segments[1].arguments.args[1].kind = "Type"
    /\ t = OptionOf(t.segments[1].arguments.args[1].ty)

\* the X of Option<X>
OptionArgument(t) == t.segments[1].arguments.args[1].ty

\* the number of Option<...> wrappers around the innermost type
RECURSIVE NestedWrappers(_)
NestedWrappers(t) ==
    IF IsOptionOf(t) THEN 1 + NestedWrappers(OptionArgument(t)) ELSE 0

\* C7: Option<X> is classified as (semantic type of X, true) whatever flag X
\* has, so Option<Option<X>> is classified like Option<X>; Option<i64> gives
\* (i64, true); the recursion makes one call per nested wrapper and then ends.
C7_OptionUnwrapsOnce ==
    /\ calls <= NestedWrappers(ty)
    /\ (type_result # Idle /\ IsOptionOf(ty)) =>
          /\ type_result = Ok(<<extract_type_info(OptionArgument(ty)).val[1], TRUE>>)
          /\ IsOptionOf(OptionArgument(ty)) =>
                type_result = extract_type_info(OptionArgument(ty))
    /\ (type_result # Idle /\ ty = OptionOf(Named(W_i64))) =>
          type_result = Ok(<<W_i64, TRUE>>)
    /\ type_result # Idle => (calls = NestedWrappers(ty) /\ call_stack = <<>>)

\* Option<Option<i64>> has been classified with two recursive calls
C7_Witness ==
    /\ ty = OptionOf(OptionOf(Named(W_i64)))
    /\ calls = 2
    /\ type_result = Ok(<<W_i64, TRUE>>)

\* C8: a one-segment path that is not an Option<X> wrapper is classified as
\* (its identifier, false); the generic arguments of the segment are left
\* out: String gives (String, false) and Vec<String> gives (Vec, false).
C8_SingleSegmentIsItsIdent ==
    (/\ type_result # Idle
     /\ ty.kind = "Path" /\ Len(ty.segments) = 1
     /\ ~IsOptionOf(ty))
    => /\ type_result = Ok(<<ty.segments[1].ident, FALSE>>)
       /\ ty = Named(W_String) => type_result = Ok(<<W_String, FALSE>>)
       /\ ty = Generic(W_Vec, <<Named(W_String)>>) => type_result = Ok(<<W_Vec, FALSE>>)

\* Vec<String> has been classified
C8_Witness ==
    /\ ty = Generic(W_Vec, <<Named(W_String)>>)
    /\ type_result = Ok(<<W_Vec, FALSE>>)

\* the identifiers of the segments with "::" between them
RECURSIVE SeparatedIdents(_)
SeparatedIdents(segments) ==
    IF Len(segments) = 1 THEN segments[1].ident
    ELSE segments[1].ident \o <<":", ":">> \o SeparatedIdents(Tail(segments))

\* C9: a path of two or more segments is classified as (its identifiers in
\* order with "::" between them, false); [alpha, Beta] gives alpha::Beta.
C9_QualifiedPathIsJoined ==
    (type_result # Idle /\ ty.kind = "Path" /\ Len(ty.segments) >= 2)
    => /\ type_result = Ok(<<SeparatedIdents(ty.segments), FALSE>>)
       /\ ty = PathType(<<Segment(W_alpha, NoArguments), Segment(W_Beta, NoArguments)>>)
            => type_result = Ok(<<<<"a", "l", "p", "h", "a", ":", ":", "B", "e", "t", "a">>,
                                  FALSE>>)

\* a path of three segments has been classified
C9_Witness ==
    /\ ty = PathType(<<Segment(W_Beta, NoArguments), Segment(W_alpha, NoArguments),
                       Segment(W_Beta, NoArguments)>>)
    /\ type_result = Ok(<<W_Beta \o W_PathSep \o W_alpha \o W_PathSep \o W_Beta, FALSE>>)

CompositeKinds == {"Array", "Slice", "Ptr", "Reference", "Tuple"}

CompositeLabel(kind) ==
    CASE kind = "Array" -> <<"A", "r", "r", "a", "y">>
      [] kind = "Slice" -> <<"S", "l", "i", "c", "e">>
      [] kind = "Ptr" -> <<"P", "t", "r">>
      [] kind = "Reference" -> <<"R", "e", "f", "e", "r", "e", "n", "c", "e">>
      [] kind = "Tuple" -> <<"T", "u", "p", "l", "e">>

\* C10: the classifier is total and shallow on the types that are not paths:
\* arrays, slices, raw pointers, references and tuples get the five distinct
\* labels Array, Slice, Ptr, Reference and Tuple with the flag false, whatever
\* they contain; every other shape gets (Unknown, false); no type yields an
\* error, and every call returns.
C10_NonPathTypesAreLabelled ==
    /\ type_result = Idle => (call_stack # <<>> \/ ret # Idle)
    /\ type_result # Idle =>
          /\ type_result.tag = "Ok"
          /\ ty.kind \in CompositeKinds =>
                type_result = Ok(<<CompositeLabel(ty.kind), FALSE>>)
          /\ ty.kind \notin CompositeKinds \cup {"Path"} =>
                type_result = Ok(<<<<"U", "n", "k", "n", "o", "w", "n">>, FALSE>>)
    /\ \A j, k \in CompositeKinds : j # k => CompositeLabel(j) # CompositeLabel(k)

\* a slice of optional elements has been classified as Slice
C10_Witness ==
    /\ ty = ElemType("Slice", OptionOf(Named(W_i64)))
    /\ type_result = Ok(<<W_Slice, FALSE>>)

-----------------------------------------------------------------------------
(* Properties of extract_diesel_derives (SpecStruct) *)

\* some derive attribute names a marker of the checklist
HasMarker(attrs) ==
    \E i \in 1..Len(attrs) :
        /\ has_opening(attrs[i], W_derive)
        /\ \E j \in 1..Len(DeriveChecklist) : HasSubtext(attrs[i], DeriveChecklist[j])

\* some table_name attribute holds = "..." with its closing quote
HasBoundName(attrs) ==
    \E i \in 1..Len(attrs) :
        /\ has_opening(attrs[i], W_table_name)
        /\ \E p \in 1..Len(attrs[i]) :
              /\ p + 2 <= Len(attrs[i])
              /\ SubSeq(attrs[i], p, p + 2) = W_EqQuote
              /\ \E q \in (p + 3)..Len(attrs[i]) : attrs[i][q] = "\""

\* C11: the attribute parser returns at most one DeriveRecord per declaration
\* (a record or nothing, never an error), and returns one exactly when a
\* marker or a bound table name is detected; the record's lists are then not
\* both empty.
C11_DeriveRecordIffDetected ==
    derive_result # Idle =>
        /\ derive_result.tag \in {"None", "Some"}
        /\ derive_result.tag = "Some"
              <=> (HasMarker(struct_item.attrs) \/ HasBoundName(struct_item.attrs))
        /\ derive_result.tag = "Some" =>
              /\ derive_result.val.derives # <<>> <=> HasMarker(struct_item.attrs)
              /\ derive_result.val.associations # <<>> <=> HasBoundName(struct_item.attrs)

\* a declaration with attributes, none of them detected, got no record
C11_Witness ==
    /\ derive_result = None
    /\ Len(struct_item.attrs) = 2
    /\ struct_item.attrs[1] = A_derive_debug
    /\ struct_item.attrs[2] = A_diesel_table_name

\* the sequence has no element twice
NoRepeats(xs) == \A i, j \in 1..Len(xs) : xs[i] = xs[j] => i = j

\* C12: in every emitted DeriveRecord each marker name occurs at most once,
\* also when several derive attributes name the same marker.
C12_MarkersAreASet ==
    (derive_result # Idle /\ derive_result.tag = "Some") =>
        NoRepeats(derive_result.val.derives)

-----------------------------------------------------------------------------
(* Properties of the collections of the run (Spec, FairSpec) *)

\* a is b with some elements left out, the order kept
IsSubsequence(a, b) ==
    LET sub[i \in 0..Len(a), j \in 0..Len(b)] ==
            IF i = 0 THEN TRUE
            ELSE IF j = 0 THEN FALSE
            ELSE (a[i] = b[j] /\ sub[i - 1, j - 1]) \/ sub[i, j - 1]
    IN  sub[Len(a), Len(b)]

OwnersOf(derives) == [i \in 1..Len(derives) |-> derives[i].struct_name]

NamesOf(records) == [i \in 1..Len(records) |-> records[i].name]

\* the owners of the derive records are names of collected structs, in order
OwnersAmongNames(derives, records) ==
    /\ \A i \in 1..Len(derives) :
          \E j \in 1..Len(records) : derives[i].struct_name = records[j].name
    /\ IsSubsequence(OwnersOf(derives), NamesOf(records))
    /\ Len(derives) <= Len(records)

\* C13: in every state of the run and in the printed document, each
\* DeriveRecord's owner is the name of a TypeRecord already collected, the
\* owners in order are a subsequence of the TypeRecord names, and there are
\* never more DeriveRecords than TypeRecords.
C13_DeriveOwnersAreTypeRecords ==
    /\ OwnersAmongNames(diesel_derives, structs)
    /\ output.tag = "Some" =>
          OwnersAmongNames(output.val.diesel_derives, output.val.structs)

\* a document printed with three structs, the second without derive record
C13_Witness ==
    /\ pc = "done" /\ output.tag = "Some"
    /\ Len(output.val.structs) = 3
    /\ Len(output.val.diesel_derives) = 2
    /\ output.val.structs[2].name = W_Pair

-----------------------------------------------------------------------------
(* Properties of the emitted TypeRecords (SpecStruct) *)

\* C14: in every emitted TypeRecord each FieldRecord's name is non-empty and
\* no two FieldRecords have the same name.
C14_FieldNamesNonEmptyAndUnique ==
    (struct_result # Idle /\ struct_result.tag = "Ok") =>
        /\ \A i \in 1..Len(struct_result.val.fields) :
              struct_result.val.fields[i].name # <<>>
        /\ NoRepeats(NamesOf(struct_result.val.fields))

-----------------------------------------------------------------------------
(* Properties of the printed document and of the end of the run (Spec, FairSpec) *)

IsStructDecl(item) == item.kind = "Struct"

IsParsedTable(item) == item.kind = "Macro" /\ extract_diesel_table(item).tag = "Some"

IsDerivingStruct(item) ==
    item.kind = "Struct" /\ extract_diesel_derives(item.item).tag = "Some"

\* one record per declaration of the kind, in the order of the declarations
TypeRecordsOf(decls) ==
    LET found == SelectSeq(decls, IsStructDecl)
    IN  [i \in 1..Len(found) |-> extract_struct_info(found[i].item).val]

TableRecordsOf(decls) ==
    LET found == SelectSeq(decls, IsParsedTable)
    IN  [i \in 1..Len(found) |-> extract_diesel_table(found[i]).val]

DeriveRecordsOf(decls) ==
    LET found == SelectSeq(decls, IsDerivingStruct)
    IN  [i \in 1..Len(found) |-> extract_diesel_derives(found[i].item).val]

\* C15: when the run does not abort, the document holds one TypeRecord per
\* struct, one TableRecord per table invocation whose text parses and one
\* DeriveRecord per struct with a derive result, each collection in the order
\* of its declarations; a skipped invocation leaves the other records in place.
C15_DocumentHoldsEveryRecordInOrder ==
    pc = "done" =>
        output = Some([structs |-> TypeRecordsOf(items),
                       diesel_tables |-> TableRecordsOf(items),
                       diesel_derives |-> DeriveRecordsOf(items)])

\* a document printed for a table, a skipped invocation and a struct: the
\* table and the struct are reported
C15_Witness ==
    /\ pc = "done" /\ Len(items) = 3
    /\ items[1] = MacroItem(<<W_table>>, T_widgets)
    /\ items[2] = MacroItem(<<W_table>>, W_widgets)
    /\ items[3].kind = "Struct"
    /\ Len(output.val.diesel_tables) = 1 /\ Len(output.val.structs) = 1

\* a step of the run goes to the next declaration, or ends the run where it is
VisitsInOrder ==
    /\ pc = "processing" /\ idx <= Len(items) + 1
    /\ UNCHANGED items
    /\ \/ idx' = idx + 1 /\ pc' = "processing" /\ idx <= Len(items)
       \/ idx' = idx /\ pc' \in {"done", "aborted"}

\* C16: the run terminates: it visits the declarations in order, each at most
\* once, it can always take its next step while it is processing, and it
\* eventually is done, with the document printed, or aborted, with none.
C16_RunTerminates ==
    /\ [][VisitsInOrder]_vars
    /\ [](/\ LoopCanStep
          /\ pc \in {"processing", "done", "aborted"}
          /\ pc = "done" => (output.tag = "Some" /\ idx = Len(items) + 1)
          /\ pc = "aborted" => output = None)
    /\ <>(pc \in {"done", "aborted"})

\* a run over three declarations is done, each visited once
C16_Witness ==
    /\ pc = "done" /\ Len(items) = 3 /\ idx = 4
    /\ items[2] = OtherItem
    /\ output.tag = "Some"

\* the records of the declarations before the one the run stopped at
Visited == SubSeq(items, 1, idx - 1)

\* C17: after the first struct that fails extraction nothing more happens: no
\* step is taken from the aborted state, the collections hold the records of
\* the declarations before the failing one and nothing else (the derive scan
\* of the failing struct has not run), and no document is printed.
C17_NothingAfterFailure ==
    /\ [][pc # "aborted"]_vars
    /\ []((pc = "aborted" /\ exit_code = 1) =>
            /\ IsTupleStruct(items[idx])
            /\ structs = TypeRecordsOf(Visited)
            /\ diesel_tables = TableRecordsOf(Visited)
            /\ diesel_derives = DeriveRecordsOf(Visited)
            /\ output = None)

\* a run aborted at a failing struct that carries a derive attribute, with a
\* struct still pending behind it
C17_Witness ==
    /\ pc = "aborted" /\ exit_code = 1
    /\ Len(items) = 3 /\ idx = 2
    /\ IsDerivingStruct(items[2])
    /\ items[3].kind = "Struct"
    /\ Len(structs) = 1 /\ Len(diesel_derives) = 0

-----------------------------------------------------------------------------
(* Properties of the nullable rule of parse_column_def (SpecColumn) *)

\* the text strictly between the first '<' and the last '>' of t
BetweenBrackets(t) ==
    SubSeq(t, Least(Occurrences(t, "<")) + 1, Greatest(Occurrences(t, ">")) - 1)

\* t has a '>' somewhere after its first '<'
ClosesAfterOpening(t) ==
    /\ Occurrences(t, "<") # {} /\ Occurrences(t, ">") # {}
    /\ Greatest(Occurrences(t, ">")) > Least(Occurrences(t, "<"))

\* the column definition has one type part, and it has been parsed
OneTypeParsed == column_result # Idle /\ Len(def_src.types) = 1

\* C18 as stated: a type text with "Nullable" and a '<' gives is_nullable =
\* true and the trimmed text between the first '<' and the last '>'; a type
\* text without "Nullable" gives is_nullable = false and the trimmed text.
C18_NullableWithBracketUnwrapped ==
    OneTypeParsed =>
        LET t == def_src.types[1]
        IN  /\ (HasSubtext(t, W_Nullable) /\ Occurrences(t, "<") # {}) =>
                  /\ Occurrences(t, ">") # {}
                  /\ column_result = Some(<<def_src.name, trim(BetweenBrackets(t)), TRUE>>)
            /\ ~HasSubtext(t, W_Nullable) =>
                  column_result = Some(<<def_src.name, trim(t), FALSE>>)

\* C18 amended: a type text with "Nullable", a '<' and a '>' after the first
\* '<' gives is_nullable = true and the trimmed text between the first '<' and
\* the last '>'; a type text with "Nullable" and a '<' but no '>', and a type
\* text without "Nullable", give is_nullable = false and the trimmed text.
C18_NullableWithClosedBracketUnwrapped ==
    OneTypeParsed =>
        LET t == def_src.types[1]
        IN  /\ (HasSubtext(t, W_Nullable) /\ ClosesAfterOpening(t)) =>
                  column_result = Some(<<def_src.name, trim(BetweenBrackets(t)), TRUE>>)
            /\ (/\ HasSubtext(t, W_Nullable)
                /\ Occurrences(t, "<") # {} /\ Occurrences(t, ">") = {}) =>
                  column_result = Some(<<def_src.name, trim(t), FALSE>>)
            /\ ~HasSubtext(t, W_Nullable) =>
                  column_result = Some(<<def_src.name, trim(t), FALSE>>)

\* Array<Nullable<Text>> has been unwrapped to Nullable<Text>
C18_Witness ==
    /\ Len(def_src.types) = 1 /\ def_src.types[1] = W_ArrayNullableText
    /\ column_result = Some(<<def_src.name, W_NullableText, TRUE>>)

-----------------------------------------------------------------------------
(* Properties of the column body and of the key list (SpecTable) *)

\* the columns stated for the segments of a body, in the order of the segments
ColumnsOfSegments(segs) ==
    LET Cols(seg) == seg.cols
    IN  Concat(Map(Cols, segs))

\* C19: in a column body split on ',', each segment that is non-empty after
\* trimming and holds exactly one "->" gives one ColumnRecord, in order; a
\* segment with no "->" or with several gives none and leaves its neighbours
\* alone; a table is returned also when every segment is dropped.
C19_OneColumnPerWellFormedSegment ==
    (table_result # Idle /\ tokens_src.tag = "body") =>
        /\ table_result.tag = "Some"
        /\ table_result.val.columns = ColumnsOfSegments(tokens_src.segs)

\* the text strictly between the first '(' and the first ')' after it
BetweenParens(c) ==
    LET open == Least(Occurrences(c, "("))
        close == Least({i \in Occurrences(c, ")") : i > open})
    IN  SubSeq(c, open + 1, close - 1)

\* the body source with the key list of a single declared column
WithPlainKey(src) == [src EXCEPT !.pk = [text |-> W_id, names |-> <<W_id>>]]

\* C20: the primary key of a returned table is the text between the first '('
\* and the first ')' after it, split on ',', each piece trimmed, the empty
\* pieces dropped, the order kept; the entries are not checked against the
\* columns: whether a table is returned does not depend on the key list, be it
\* empty or the name of no column.
C20_PrimaryKeyIsTheParenthesizedList ==
    /\ (table_result # Idle /\ table_result.tag = "Some") =>
          table_result.val.primary_key =
              CASE tokens_src.tag = "form" -> tokens_src.keys
                [] tokens_src.tag = "body" -> tokens_src.pk.names
                [] tokens_src.tag = "brace" -> <<tokens_src.key>>
                [] tokens_src.tag = "raw" ->
                     LET piece == trim(BetweenParens(trim(tokens)))
                     IN  IF piece = <<>> THEN <<>> ELSE <<piece>>
    /\ (table_result # Idle /\ tokens_src.tag = "body") =>
          table_result.tag = parse_diesel_table_tokens(BodyText(WithPlainKey(tokens_src))).tag

\* a table returned with the key ghost, which is none of its columns
C20_Witness ==
    /\ tokens_src.tag = "body"
    /\ table_result.tag = "Some"
    /\ table_result.val.primary_key = <<W_ghost>>
    /\ Len(table_result.val.columns) = 2
    /\ \A i \in 1..2 : table_result.val.columns[i].name # W_ghost

-----------------------------------------------------------------------------
(* The column body and the braces around it *)

\* the offsets of character ch in c that lie after offset from
OccurrencesAfter(c, ch, from) == {i \in Occurrences(c, ch) : i > from}

\* the text strictly between the first '{' after the first ')' of the trimmed
\* text and the first '}' after that '{'; the empty text when there is none
BodyBetweenBraces(text) ==
    LET c == trim(text)
        closings == Occurrences(c, ")")
    IN  IF closings = {} THEN <<>>
        ELSE LET opens == OccurrencesAfter(c, "{", Least(closings))
             IN  IF opens = {} THEN <<>>
                 ELSE LET ends == OccurrencesAfter(c, "}", Least(opens))
                      IN  IF ends = {} THEN <<>>
                          ELSE SubSeq(c, Least(opens) + 1, Least(ends) - 1)

\* C21: the column body is the text strictly between the first '{' after the
\* ')' that closes the primary-key list and the first '}' after that '{':
\* braces before the ')' are ignored, no bracket depth is tracked, and no
\* column record comes from text after that first '}'.  A text with braces in
\* its key list, any text between ')' and '{', and more text (with columns and
\* braces of its own) after the first '}' parses to the columns of its body
\* alone, and whatever the text, every returned column is named in the body.
C21_ColumnBodyIsBetweenFirstBraces ==
    table_result # Idle =>
        /\ tokens_src.tag = "brace" =>
               /\ table_result.tag = "Some"
               /\ table_result.val.columns = tokens_src.body.cols
               /\ BodyBetweenBraces(tokens) = tokens_src.body.text
        /\ table_result.tag = "Some" /\ table_result.val.columns # <<>> =>
               LET body == BodyBetweenBraces(tokens)
               IN  \A i \in 1..Len(table_result.val.columns) :
                       HasSubtext(body, table_result.val.columns[i].name)

\* a text with a braced column inside its key list, a nested '{' in its body
\* and a braced column after the body has been parsed
C21_Witness ==
    /\ table_result # Idle
    /\ tokens_src.tag = "brace"
    /\ tokens_src.key = W_BracedGhost
    /\ Occurrences(tokens_src.body.text, "{") # {}
    /\ Occurrences(tokens_src.tail, "{") # {}
    /\ table_result.tag = "Some"
    /\ Len(table_result.val.columns) = 1

-----------------------------------------------------------------------------
(* Marker detection, one attribute text at a time *)

\* the place of a marker name in the checklist the specification fixes
ChecklistRank(w) ==
    CASE w = W_Queryable -> 1
      [] w = W_Insertable -> 2
      [] w = W_AsChangeset -> 3
      [] w = W_Associations -> 4
      [] w = W_Identifiable -> 5
      [] OTHER -> 0

ChecklistNames ==
    {W_Queryable, W_Insertable, W_AsChangeset, W_Associations, W_Identifiable}

HasDeriveOpening(text) ==
    \/ HasSubtext(text, <<"#", "[", "d", "e", "r", "i", "v", "e">>)
    \/ HasSubtext(text, <<"#", " ", "[", "d", "e", "r", "i", "v", "e">>)

\* m is what the attribute text contributes to markers: nothing without the
\* derive opening; with it, each checklist name occurring in the text, once,
\* in checklist order
IsMarkersOf(m, text) ==
    IF ~HasDeriveOpening(text) THEN m = <<>>
    ELSE /\ \A i \in 1..Len(m) : m[i] \in ChecklistNames
         /\ \A w \in ChecklistNames :
               HasSubtext(text, w) <=> \E i \in 1..Len(m) : m[i] = w
         /\ \A i, j \in 1..Len(m) :
               i < j => ChecklistRank(m[i]) < ChecklistRank(m[j])

\* m is made of the contributions of the attribute texts, in their order
RECURSIVE IsMarkersOfAll(_, _)
IsMarkersOfAll(m, attrs) ==
    IF attrs = <<>> THEN m = <<>>
    ELSE \E k \in 0..Len(m) :
            /\ IsMarkersOf(SubSeq(m, 1, k), Head(attrs))
            /\ IsMarkersOfAll(SubSeq(m, k + 1, Len(m)), Tail(attrs))

\* the markers of the record the attribute parser returned, none without one
MarkersReturned ==
    IF derive_result.tag = "Some" THEN derive_result.val.derives ELSE <<>>

\* C22: each attribute text with the derive opening ("#[derive" or
\* "# [derive") appends to markers every checklist name that occurs in it as a
\* substring, in checklist order whatever the order in the text, also when the
\* name is part of a longer identifier; an attribute text without the opening
\* contributes no marker even if it contains the names.
C22_MarkersAreTheChecklistNamesFound ==
    derive_result # Idle =>
        /\ IsMarkersOfAll(MarkersReturned, struct_item.attrs)
        /\ struct_item.attrs = <<A_derive_reversed>> =>
              MarkersReturned = <<W_Queryable, W_AsChangeset, W_Identifiable>>
        /\ struct_item.attrs = <<A_derive_compact>> =>
              MarkersReturned = <<W_Associations>>
        /\ struct_item.attrs = <<A_derive_by_name>> =>
              MarkersReturned = <<W_Queryable>>
        /\ struct_item.attrs = <<A_doc_queryable, A_cfg_attr_derive>> =>
              MarkersReturned = <<>>

\* names written in reverse came out in checklist order, after an attribute
\* that holds a name without the opening
C22_Witness ==
    /\ derive_result # Idle
    /\ struct_item.attrs = <<A_doc_queryable, A_derive_reversed>>
    /\ MarkersReturned = <<W_Queryable, W_AsChangeset, W_Identifiable>>

-----------------------------------------------------------------------------
(* Table-binding detection, one attribute text at a time *)

HasTableNameOpening(text) ==
    \/ HasSubtext(text, <<"#", "[">> \o W_table_name)
    \/ HasSubtext(text, <<"#", " ", "[">> \o W_table_name)

\* the places where = " starts in the text
BindingStarts(text) ==
    {p \in 1..Len(text) : p + 2 <= Len(text) /\ SubSeq(text, p, p + 2) = <<"=", " ", "\"">>}

\* the places of the " characters after the first = " of the text
ClosingQuotes(text) ==
    {q \in Occurrences(text, "\"") : q > Least(BindingStarts(text)) + 2}

\* b is what the attribute text contributes to bound_table_names: the text
\* between the first = " and the next ", when the text has the table-name
\* opening and both are there, and nothing otherwise
IsBindingOf(b, text) ==
    IF HasTableNameOpening(text) /\ BindingStarts(text) # {}
          /\ ClosingQuotes(text) # {}
    THEN b = <<SubSeq(text, Least(BindingStarts(text)) + 3,
                      Least(ClosingQuotes(text)) - 1)>>
    ELSE b = <<>>

\* b is made of the contributions of the attribute texts, in their order
RECURSIVE IsBindingOfAll(_, _)
IsBindingOfAll(b, attrs) ==
    IF attrs = <<>> THEN b = <<>>
    ELSE \E k \in 0..Len(b) :
            /\ IsBindingOf(SubSeq(b, 1, k), Head(attrs))
            /\ IsBindingOfAll(SubSeq(b, k + 1, Len(b)), Tail(attrs))

\* the bound table names of the record the attribute parser returned
BindingsReturned ==
    IF derive_result.tag = "Some" THEN derive_result.val.associations ELSE <<>>

W_simples == <<"s", "i", "m", "p", "l", "e", "s">>

\* C23: each attribute text with the table-name opening ("#[table_name" or
\* "# [table_name") appends to bound_table_names the text between its first
\* = " and the next ", be it the empty string; without a = " or without a
\* closing " after it nothing is appended, and the parser still returns a
\* record or nothing, never an error.
C23_BoundNameIsTheQuotedText ==
    derive_result # Idle =>
        /\ derive_result.tag \in {"None", "Some"}
        /\ IsBindingOfAll(BindingsReturned, struct_item.attrs)
        /\ struct_item.attrs = <<A_table_name>> => BindingsReturned = <<W_simples>>
        /\ struct_item.attrs = <<A_table_name_empty>> => BindingsReturned = <<<<>>>>
        /\ struct_item.attrs = <<A_table_name_two>> => BindingsReturned = <<<<"a">>>>
        /\ struct_item.attrs = <<A_table_name_paren, A_table_name_open>> =>
              derive_result = None

\* an empty table name was recorded, after an attribute whose table name has
\* no closing quote
C23_Witness ==
    /\ derive_result # Idle
    /\ struct_item.attrs = <<A_table_name_open, A_table_name_empty>>
    /\ derive_result.tag = "Some"
    /\ derive_result.val.derives = <<>>
    /\ derive_result.val.associations = << <<>> >>

-----------------------------------------------------------------------------
(* The table binding nested in a diesel attribute *)

\* the attribute text is a derive attribute of the generated declarations
IsDeriveAttr(text) ==
    text \in {A_derive_queryable, A_derive_debug, A_derive_by_name,
              A_derive_reversed, A_derive_compact}

\* the declaration carries the nested binding and, besides it, derive
\* attributes at most
CarriesNestedBindingOnly(attrs) ==
    /\ \E i \in 1..Len(attrs) : attrs[i] = A_diesel_table_name
    /\ \A i \in 1..Len(attrs) : attrs[i] = A_diesel_table_name \/ IsDeriveAttr(attrs[i])

\* some derive attribute of the declaration holds a checklist name
DeriveAttrNamesMarker(attrs) ==
    \E i \in 1..Len(attrs) :
        /\ IsDeriveAttr(attrs[i])
        /\ \E w \in ChecklistNames : HasSubtext(attrs[i], w)

\* the bound table names of the declaration once its nested bindings are
\* taken away
BindingsWithoutNested ==
    LET NotNested(text) == text # A_diesel_table_name
        r == extract_diesel_derives(
                 [struct_item EXCEPT !.attrs = SelectSeq(@, NotNested)])
    IN  IF r.tag = "Some" THEN r.val.associations ELSE <<>>

\* C30: a table binding written inside another attribute, as in
\* # [diesel (table_name = simples)], does not fire table-binding detection
\* and adds nothing to bound_table_names; a declaration carrying only that
\* binding and a derive attribute gets a DeriveRecord exactly when the derive
\* attribute holds a recognized marker, and the record's bound_table_names is
\* empty.
C30_NestedBindingIsNotDetected ==
    derive_result # Idle =>
        /\ BindingsReturned = BindingsWithoutNested
        /\ CarriesNestedBindingOnly(struct_item.attrs) =>
              /\ derive_result.tag = "Some" <=> DeriveAttrNamesMarker(struct_item.attrs)
              /\ BindingsReturned = <<>>

\* the declaration of the fixture, a derive attribute with markers followed by
\* the nested binding, got a record without bound table name
C30_Witness ==
    /\ derive_result # Idle
    /\ struct_item.attrs = <<A_derive_queryable, A_diesel_table_name>>
    /\ derive_result.tag = "Some"
    /\ derive_result.val.derives = <<W_Queryable, W_Insertable>>
    /\ derive_result.val.associations = <<>>

-----------------------------------------------------------------------------
(* Which invocations reach the table parser *)

\* the name an invocation is written with, path included
MacroName(item) == join(item.path, W_PathSep)

\* the loop is at a declaration
AtDeclaration == pc = "processing" /\ idx <= Len(items)

\* the step appends no record to any collection and does not abort the run
NoRecordNoAbort ==
    /\ structs' = structs
    /\ diesel_tables' = diesel_tables
    /\ diesel_derives' = diesel_derives
    /\ pc' # "aborted"

\* C24: a macro invocation whose name is not the table-declaration keyword
\* "table" (joinable!, allow_tables_to_appear_in_same_query!, ...) is never
\* passed to the table parser, and neither it nor a declaration that is
\* neither a struct nor a macro invocation ever produces a record or aborts
\* the run.
C24_OnlyTableInvocationsAreParsed ==
    [][(/\ AtDeclaration
        /\ \/ items[idx].kind = "Other"
           \/ items[idx].kind = "Macro" /\ MacroName(items[idx]) # W_table)
       => NoRecordNoAbort]_vars

-----------------------------------------------------------------------------
(* The TypeRecord of a declaration *)

\* the fields the declaration declares, in declaration order
DeclaredFields(s) ==
    CASE s.fields.kind = "Named" -> s.fields.named
      [] s.fields.kind = "Unnamed" -> s.fields.unnamed
      [] s.fields.kind = "Unit" -> <<>>

\* C25: for every declaration that extracts successfully the TypeRecord
\* carries the declaration's name, exactly one FieldRecord per declared field
\* in declaration order (none for a unit shape), and the declaration's and
\* each field's attribute texts, verbatim and in their order; extraction gives
\* this complete record or a failure that holds no record, never a record
\* with only some of the fields.
C25_TypeRecordIsComplete ==
    struct_result # Idle =>
        /\ struct_result.tag \in {"Ok", "Err"}
        /\ struct_result.tag = "Err" => DOMAIN struct_result = {"tag", "err"}
        /\ struct_result.tag = "Ok" =>
              LET record == struct_result.val
                  declared == DeclaredFields(struct_item)
              IN  /\ record.name = struct_item.ident
                  /\ record.attributes = struct_item.attrs
                  /\ Len(record.fields) = Len(declared)
                  /\ \A i \in 1..Len(declared) :
                        /\ declared[i].ident = Some(record.fields[i].name)
                        /\ record.fields[i].attributes = declared[i].attrs

\* a struct with an attribute and two fields, the second with an attribute of
\* its own, was extracted
C25_Witness ==
    /\ struct_result # Idle
    /\ struct_result.tag = "Ok"
    /\ struct_item.attrs = <<A_derive_queryable>>
    /\ Len(struct_result.val.fields) = 2
    /\ struct_result.val.fields[1].attributes = <<>>
    /\ struct_result.val.fields[2].attributes = <<A_serde_skip>>

-----------------------------------------------------------------------------
(* What one declaration changes *)

\* new is old, or old with one record appended
GrowsByAtMostOne(old, new) ==
    /\ Len(new) \in {Len(old), Len(old) + 1}
    /\ SubSeq(new, 1, Len(old)) = old

\* C26: processing one top-level declaration changes only the collections of
\* its own kind: a struct appends at most one record to the type collection
\* and at most one to the derive collection and leaves the table collection
\* unchanged; a macro invocation appends at most one record to the table
\* collection and leaves the other two unchanged; any other declaration
\* leaves all three unchanged; no step modifies, reorders or removes a record
\* already appended.
C26_DeclarationChangesItsOwnCollections ==
    [][/\ GrowsByAtMostOne(structs, structs')
       /\ GrowsByAtMostOne(diesel_tables, diesel_tables')
       /\ GrowsByAtMostOne(diesel_derives, diesel_derives')
       /\ (AtDeclaration /\ items[idx].kind = "Struct") =>
             diesel_tables' = diesel_tables
       /\ (AtDeclaration /\ items[idx].kind = "Macro") =>
             structs' = structs /\ diesel_derives' = diesel_derives
       /\ (AtDeclaration /\ items[idx].kind = "Other") =>
             /\ structs' = structs
             /\ diesel_tables' = diesel_tables
             /\ diesel_derives' = diesel_derives
       /\ ~AtDeclaration =>
             /\ structs' = structs
             /\ diesel_tables' = diesel_tables
             /\ diesel_derives' = diesel_derives]_vars

\* two different tables were collected, in the order of their invocations
C26_Witness ==
    /\ pc = "done"
    /\ Len(items) = 3
    /\ items[2].kind = "Macro"
    /\ Len(diesel_tables) = 2
    /\ diesel_tables[1] = WidgetsTable
    /\ diesel_tables[2] # WidgetsTable

-----------------------------------------------------------------------------
(* When the classifier sets is_optional *)

W_QualifiedOption ==
    <<"s", "t", "d", ":", ":", "o", "p", "t", "i", "o", "n", ":", ":", "O", "p",
      "t", "i", "o", "n">>

\* Option<A, B>
IsOptionOfTwo(t) ==
    /\ t.kind = "Path"
    /\ Len(t.segments) = 1
    /\ t.segments[1].ident = W_Option
    /\ t.segments[1].arguments.kind = "AngleBracketed"
    /\ Len(t.segments[1].arguments.args) = 2

\* std::option::Option<...>
IsQualifiedOption(t) ==
    /\ t.kind = "Path"
    /\ Len(t.segments) = 3
    /\ t.segments[1].ident = W_std
    /\ t.segments[2].ident = W_option
    /\ t.segments[3].ident = W_Option
    /\ t.segments[3].arguments.kind = "AngleBracketed"

\* C27: the classifier returns is_optional = true exactly when the outermost
\* type is a one-segment path named Option that carries exactly one
\* angle-bracketed type argument; Option with no argument, with two arguments
\* or with an argument that is not a type gives (Option, false), and the
\* path-qualified std::option::Option<T> is not unwrapped and gives
\* (std::option::Option, false).
C27_OptionalExactlyForOptionOfOneType ==
    type_result # Idle =>
        /\ type_result.tag = "Ok"
        /\ type_result.val[2] = TRUE <=> IsOptionOf(ty)
        /\ (\/ ty = Named(W_Option)
            \/ ty = PathType(<<Segment(W_Option, Parenthesized)>>)
            \/ ty = PathType(<<Segment(W_Option, AngleBracketed(<<LifetimeArg>>))>>)
            \/ IsOptionOfTwo(ty))
           => type_result = Ok(<<W_Option, FALSE>>)
        /\ IsQualifiedOption(ty) => type_result = Ok(<<W_QualifiedOption, FALSE>>)

\* std::option::Option<Option<i64>> has been classified without a recursive
\* call
C27_Witness ==
    /\ ty = QualifiedOptionOf(OptionOf(Named(W_i64)))
    /\ calls = 0
    /\ type_result = Ok(<<W_QualifiedOption, FALSE>>)

-----------------------------------------------------------------------------
(* The name of a table *)

\* n is the run of characters of the text from its first character that is
\* not whitespace up to the whitespace character that follows
IsFirstWordOf(n, text) ==
    \E i \in 1..Len(text) :
        /\ \A j \in 1..(i - 1) : text[j] \in WhiteSpace
        /\ i + Len(n) <= Len(text)
        /\ SubSeq(text, i, i + Len(n) - 1) = n
        /\ text[i + Len(n)] \in WhiteSpace

W_widgets_id == W_widgets \o <<"(">> \o W_id \o <<")">>

\* C29: every TableRecord the parser returns has a name that is non-empty and
\* holds no whitespace: the name is the prefix of the trimmed text before its
\* first whitespace character, parentheses and braces included; the text
\* widgets(id) { id -> Int8 } is named widgets(id), with primary key [id].
C29_NameIsTheFirstWord ==
    (table_result # Idle /\ table_result.tag = "Some") =>
        /\ table_result.val.name # <<>>
        /\ NoWhitespaceIn(table_result.val.name)
        /\ IsFirstWordOf(table_result.val.name, tokens)
        /\ tokens \in GluedTexts =>
              /\ table_result.val.name = W_widgets_id
              /\ table_result.val.primary_key = <<W_id>>

\* the text widgets(id) { id -> Int8 }, with whitespace around it, has been
\* parsed to a table named widgets(id)
C29_Witness ==
    /\ table_result # Idle
    /\ tokens \in GluedTexts
    /\ tokens[1] = " "
    /\ table_result.tag = "Some"
    /\ table_result.val.name = W_widgets_id
    /\ Len(table_result.val.columns) = 1

=========================================================================
